---- MODULE Spec2Model ----
(***************************************************************************)
(* Deferred-work subsystem of the Telegram personal assistant:             *)
(*   - pending_emails.json   (EmailService)                                *)
(*   - pending_reminders.json (ReminderService)                            *)
(*   - the sent-reminder marks of the calendar handler                     *)
(*   - the dispatch decision of AIHandler.execute_email_action and         *)
(*     AIHandler.execute_reminder_action                                   *)
(*   - the APScheduler jobs of handlers/scheduled_tasks.py                 *)
(*   - the keyword classification of handlers/ai_chat.py handle_message    *)
(*                                                                         *)
(* Time is a number of seconds; minute m of hour h is second               *)
(* h*3600 + m*60.  Everything runs on one asyncio event loop: a handler    *)
(* is atomic up to the next await that really suspends                     *)
(* (application.bot.send_message).  send_email_now and the Gemini calls    *)
(* are blocking calls inside "async def" bodies and never yield.           *)
(* Payload text (recipient, subject, body, reminder_text, priority) and    *)
(* the audit fields sent_time / error are left out of the records.         *)
(***************************************************************************)
EXTENDS Integers, Sequences, FiniteSets, TLC

VARIABLES
    now,                \* the wall clock, in seconds
    enabled,            \* EmailService.enabled and credentials present
    USER_CHAT_ID,       \* handlers.basic_commands.USER_CHAT_ID: TRUE = known
    pending_emails,     \* pending_emails.json: insertion-ordered id -> record
    pending_reminders,  \* pending_reminders.json: insertion-ordered id -> record
    smtp_log,           \* calls of send_email_now made by the email tick
    bot_log,            \* bot.send_message calls made by the reminder tick
    reminders_to_send,  \* reminder tick: ids still to send, head is in flight
    email_pc,           \* position of send_scheduled_emails
    result,             \* the handler that ran in the last step and how it ended
    is_authenticated,   \* CalendarHandler.is_authenticated
    sent_reminders,     \* CalendarHandler.sent_reminders
    events,             \* the calendar: event id -> start time
    calendar_log,       \* bot.send_message calls made by the calendar tick
    calendar_queue,     \* calendar tick: events still to send, head in flight
    last_calendar_run,  \* clock value of the last calendar-reminder tick
    calendar_calls,     \* mutating requests made to the calendar service
    bot_data,           \* context.bot_data: /email requests awaiting confirmation
    files,              \* condition of the three backing documents on disk
    calendar_fails,     \* the calendar service answers requests with an error
    extracted           \* what the last call of an extractor returned

vars == <<now, enabled, USER_CHAT_ID, pending_emails, pending_reminders,
          smtp_log, bot_log, reminders_to_send, email_pc, result,
          is_authenticated, sent_reminders, events, calendar_log,
          calendar_queue, last_calendar_run, calendar_calls, bot_data, files,
          calendar_fails, extracted>>

storeVars == <<pending_emails, pending_reminders, smtp_log, bot_log,
               reminders_to_send, email_pc>>
calendarVars == <<is_authenticated, sent_reminders, events, calendar_log, calendar_queue,
                  last_calendar_run, calendar_calls>>
chatVars == <<bot_data>>
envVars == <<files, calendar_fails, extracted>>

----------------------------------------------------------------------------
(* Bounds of the model *)

StartTime == 3510       \* the clock starts at 00:58:30
MaxAdvances == 3        \* 30-second clock advances explored after StartTime
MaxItems == 2           \* items held by the two pending stores together
MaxMinutes == 16        \* one-minute clock advances of the calendar scenario
MaxCalls == 1           \* mutating calendar requests kept in calendar_calls
MaxChatAdvances == 1    \* 30-second clock advances between free-text messages
MaxSessions == 1        \* /email requests awaiting confirmation at one time

(* Program constants *)

days_old == 7           \* retention window of cleanup_old_emails/_reminders
REMINDER_MINUTES_BEFORE == 15
REMINDER_CHECK_INTERVAL_MINUTES == 5
max_sent_reminders == 1000  \* cleanup_old_reminders clears a larger set

NoTime == 0 - 1         \* parse_send_time / parse_remind_time returned None
ValueError == 0 - 2     \* datetime.replace raised ValueError

----------------------------------------------------------------------------
(* datetime arithmetic *)

MinuteFloor(t) == t - (t % 60)               \* t.replace(second=0, microsecond=0)
HourFloor(t) == t - (t % 3600)
MinuteOfHour(t) == (t % 3600) \div 60        \* t.minute

\* t.replace(minute=m, second=0, microsecond=0): minute must be in 0..59
replace_minute(t, m) ==
    IF m \in 0..59 THEN HourFloor(t) + m * 60 ELSE ValueError

----------------------------------------------------------------------------
(* The JSON documents: a dict keeps insertion order, so a document is a     *)
(* sequence of records with distinct ids.                                   *)

Keys(d) == {d[i].id : i \in DOMAIN d}
IndexOf(d, id) == CHOOSE i \in DOMAIN d : d[i].id = id
Get(d, id) == d[IndexOf(d, id)]

\* d[rec.id] = rec
DictSet(d, rec) ==
    IF rec.id \in Keys(d)
    THEN [d EXCEPT ![IndexOf(d, rec.id)] = rec]
    ELSE Append(d, rec)


----------------------------------------------------------------------------
(* What the Gemini extraction hands to the dispatcher: no payload, or a     *)
(* payload whose send_time / remind_time string is "now" or a text that     *)
(* the TimeResolver parses to parses_to (NoTime: no format matches).        *)

NoData == [data |-> FALSE, time_str |-> "now", parses_to |-> NoTime]

ResolvedTimes(t) ==
    {MinuteFloor(t) - 60, MinuteFloor(t), t + 30,
     MinuteFloor(t) + 60, MinuteFloor(t) + 120}

Requests(t) ==
    {NoData, [data |-> TRUE, time_str |-> "now", parses_to |-> NoTime]}
    \cup {[data |-> TRUE, time_str |-> "text", parses_to |-> p] :
             p \in {NoTime} \cup ResolvedTimes(t)}

\* EmailService.parse_send_time, as called by execute_email_action
parse_send_time(req, t) ==
    IF req.time_str = "now" THEN t ELSE req.parses_to

\* ReminderService.parse_remind_time
parse_remind_time(req, t) ==
    IF req.time_str = "now" THEN t ELSE req.parses_to

----------------------------------------------------------------------------
\* a dispatcher that hands "now" to the parser like any other time string
\* and applies the same-minute correction to what comes back
email_send_time_parsing_now(req, current_time) ==
    LET send_time == parse_send_time(req, current_time)
    IN  IF send_time = NoTime THEN NoTime
        ELSE IF MinuteFloor(send_time) = MinuteFloor(current_time)
             THEN replace_minute(send_time, MinuteOfHour(send_time) + 1)
             ELSE send_time

(* AIHandler.execute_email_action, lines 504-538: the time it schedules     *)
(* with.  NoTime: no valid send_time; ValueError: replace() raised.         *)

email_send_time(req, current_time) ==
    LET send_time == IF req.time_str # "now"
                     THEN parse_send_time(req, current_time) ELSE NoTime
    IN  IF send_time = NoTime THEN NoTime
        ELSE IF MinuteFloor(send_time) = MinuteFloor(current_time)
             THEN replace_minute(send_time, MinuteOfHour(send_time) + 1)
             ELSE send_time

(* AIHandler.execute_reminder_action, lines 726-760 *)
reminder_remind_time(req, current_time) ==
    LET remind_time == IF req.time_str # "now"
                       THEN parse_remind_time(req, current_time) ELSE NoTime
    IN  IF remind_time = NoTime THEN NoTime
        ELSE IF MinuteFloor(remind_time) = MinuteFloor(current_time)
             THEN replace_minute(remind_time, MinuteOfHour(remind_time) + 1)
             ELSE remind_time

\* if send_time: ... if send_time > current_time: should_schedule = True
should_schedule(send_time, current_time) ==
    send_time # NoTime /\ send_time > current_time

----------------------------------------------------------------------------
(* DeferredWorkStore operations *)

\* f"email_{int(datetime.now().timestamp())}"
email_id(t) == t
\* f"reminder_{int(datetime.now().timestamp())}"
reminder_id(t) == t

\* EmailService.save_pending_email
save_pending_email(d, scheduled_time, t) ==
    DictSet(d, [id |-> email_id(t), scheduled_time |-> scheduled_time,
                created_time |-> t, status |-> "pending"])

\* ReminderService.save_pending_reminder
save_pending_reminder(d, scheduled_time, t) ==
    DictSet(d, [id |-> reminder_id(t), scheduled_time |-> scheduled_time,
                created_time |-> t, status |-> "pending"])

\* a cancel that forgets the status test
can_cancel_any(d, id) == id \in Keys(d)

\* the test of cancel_pending_email / cancel_pending_reminder
can_cancel(d, id) == id \in Keys(d) /\ Get(d, id).status = "pending"

\* EmailService.cancel_pending_email: the document it leaves
cancel_pending_email(d, id) ==
    IF can_cancel(d, id)
    THEN [d EXCEPT ![IndexOf(d, id)].status = "cancelled"]
    ELSE d

\* ReminderService.cancel_pending_reminder: the document it leaves
cancel_pending_reminder(d, id) ==
    IF can_cancel(d, id)
    THEN [d EXCEPT ![IndexOf(d, id)].status = "cancelled"]
    ELSE d

\* a purge that forgets the age test
OldOrNot(rec, t) == TRUE

Old(rec, t) == rec.created_time < t - days_old * 86400

\* EmailService.cleanup_old_emails
cleanup_old_emails(d, t) ==
    SelectSeq(d, LAMBDA r :
        ~(r.status \in {"sent", "failed", "cancelled"} /\ Old(r, t)))

\* ReminderService.cleanup_old_reminders
cleanup_old_reminders(d, t) ==
    SelectSeq(d, LAMBDA r :
        ~(r.status \in {"sent", "cancelled"} /\ Old(r, t)))

\* a tick that forgets the status test
DueWhateverStatus(rec, current_time) == rec.scheduled_time <= current_time

\* a tick that forgets the time test
DueWhateverTime(rec, current_time) == rec.status = "pending"

\* status == 'pending' and scheduled_time <= current_time
Due(rec, current_time) ==
    rec.status = "pending" /\ rec.scheduled_time <= current_time

DueIds(d, current_time) == {d[i].id : i \in {j \in DOMAIN d : Due(d[j], current_time)}}

SeqMap(s, F(_)) == [i \in DOMAIN s |-> F(s[i])]

----------------------------------------------------------------------------
(* EmailService.check_and_send_scheduled_emails.  oks[id] is the outcome of *)
(* send_email_now for the due item id.  The document is iterated in         *)
(* insertion order and written back once, after the loop.                   *)

\* a tick that writes back only the items it has sent
rewrite_only_sent(d, current_time, oks) ==
    SeqMap(SelectSeq(d, LAMBDA r : Due(r, current_time)),
           LAMBDA r : [r EXCEPT !.status = IF oks[r.id] THEN "sent" ELSE "failed"])

check_and_send_scheduled_emails(d, current_time, oks) ==
    [i \in DOMAIN d |->
        IF Due(d[i], current_time)
        THEN [d[i] EXCEPT !.status = IF oks[d[i].id] THEN "sent" ELSE "failed"]
        ELSE d[i]]

\* the send_email_now calls of one tick, in the order they are made
sent_emails(d, current_time, oks) ==
    SeqMap(SelectSeq(d, LAMBDA r : Due(r, current_time)),
           LAMBDA r : [id |-> r.id, ok |-> oks[r.id], tick |-> current_time])

\* a reminder tick that leaves the marking for after the send
check_without_marking(d, current_time) == d

(* ReminderService.check_and_send_scheduled_reminders: every due reminder   *)
(* is marked sent and the document is written before anything is sent.      *)

check_and_send_scheduled_reminders(d, current_time) ==
    [i \in DOMAIN d |->
        IF Due(d[i], current_time)
        THEN [d[i] EXCEPT !.status = "sent"]
        ELSE d[i]]

\* reminders_to_send, in insertion order
reminders_due(d, current_time) ==
    SeqMap(SelectSeq(d, LAMBDA r : Due(r, current_time)),
           LAMBDA r : [id |-> r.id, tick |-> current_time])

\* application.bot.send_message is called for the head of the list
InFlight(entry) == [id |-> entry.id, tick |-> entry.tick, outcome |-> "inflight"]

----------------------------------------------------------------------------
(* The state after construction of the services *)

NoResult == [op |-> "none", outcome |-> "none", id |-> NoTime]

\* an extractor returned None, or none was called yet
NoPayload == [kind |-> "none"]

\* the three documents: pending_emails.json, pending_reminders.json,
\* sent_reminders.json
FileNames == {"pending_emails", "pending_reminders", "sent_reminders"}

\* missing: os.path.exists is False; valid: a JSON document of the store;
\* corrupt: not JSON (json.load raises JSONDecodeError); unreadable: open or
\* read raises an OSError or a UnicodeDecodeError
FileConditions == {"missing", "valid", "corrupt", "unreadable"}

AllValid == [f \in FileNames |-> "valid"]

Loaded(value) == [raised |-> FALSE, value |-> value]
Raises == [raised |-> TRUE, value |-> <<>>]

\* os.path.exists, then open and json.load inside
\* try ... except (json.JSONDecodeError, FileNotFoundError): pass; return {}
load_pending_emails(condition, document) ==
    IF condition = "missing" THEN Loaded(<<>>)
    ELSE IF condition = "valid" THEN Loaded(document)
    ELSE IF condition = "corrupt" THEN Loaded(<<>>)
    ELSE Raises

load_pending_reminders(condition, document) ==
    IF condition = "missing" THEN Loaded(<<>>)
    ELSE IF condition = "valid" THEN Loaded(document)
    ELSE IF condition = "corrupt" THEN Loaded(<<>>)
    ELSE Raises

\* os.path.exists, then open and json.load with no exception handler
load_sent_reminders(condition, sent) ==
    IF condition = "missing" THEN Loaded([ids |-> {}, others |-> 0])
    ELSE IF condition = "valid" THEN Loaded(sent)
    ELSE Raises

StoreInit ==
    /\ now = StartTime
    /\ enabled \in BOOLEAN
    /\ USER_CHAT_ID = FALSE
    /\ pending_emails = <<>>
    /\ pending_reminders = <<>>
    /\ smtp_log = <<>>
    /\ bot_log = <<>>
    /\ reminders_to_send = <<>>
    /\ email_pc = "idle"
    /\ bot_data = <<>>
    /\ files = AllValid
    /\ calendar_fails = FALSE
    /\ extracted = NoPayload
    /\ result = NoResult

CalendarIdle ==
    /\ is_authenticated = FALSE
    /\ sent_reminders = [ids |-> {}, others |-> 0]
    /\ events = <<>>
    /\ calendar_log = <<>>
    /\ calendar_queue = <<>>
    /\ last_calendar_run = NoTime
    /\ calendar_calls = <<>>

Init == StoreInit /\ CalendarIdle

Horizon == StartTime + 30 * MaxAdvances

\* room for one more item, or the insert reuses an id of document d
Room(d, id) ==
    id \in Keys(d) \/ Len(pending_emails) + Len(pending_reminders) < MaxItems

----------------------------------------------------------------------------
(* The clock *)

Advance ==
    /\ now + 30 <= Horizon
    /\ now' = now + 30
    /\ result' = NoResult
    /\ UNCHANGED <<enabled, USER_CHAT_ID, storeVars, calendarVars, chatVars, envVars>>

\* more than the retention window passes
AdvanceDays ==
    /\ now <= Horizon
    /\ now' = now + (days_old + 1) * 86400
    /\ result' = NoResult
    /\ UNCHANGED <<enabled, USER_CHAT_ID, storeVars, calendarVars, chatVars, envVars>>

(* handlers/basic_commands.py: /start and /stop *)

start ==
    /\ USER_CHAT_ID' = TRUE
    /\ result' = NoResult
    /\ UNCHANGED <<now, enabled, storeVars, calendarVars, chatVars, envVars>>

stop_messages ==
    /\ USER_CHAT_ID' = FALSE
    /\ result' = NoResult
    /\ UNCHANGED <<now, enabled, storeVars, calendarVars, chatVars, envVars>>

----------------------------------------------------------------------------
(* AIHandler.execute_email_action *)

Reply(op, outcome, id) == [op |-> op, outcome |-> outcome, id |-> id]

\* an executor without its exception handler: the exception leaves it
exception_propagates(op) == Reply(op, "raised", NoTime)

\* except Exception as e: return f"❌ Error ...: {str(e)}"
error_reply(op) == Reply(op, "error", NoTime)

\* an extractor whose empty answer goes unnoticed
payload_never_missing(req) == FALSE

\* "if not email_data" / "if not reminder_data": the extractor returned None
no_payload(req) == ~req.data

execute_email_action(req) ==
    LET send_time == email_send_time(req, now)
        \* save_pending_email loads the document before it adds the item
        loaded == load_pending_emails(files["pending_emails"], pending_emails)
    IN
    /\ IF ~enabled
         THEN /\ result' = Reply("email", "not_configured", NoTime)
              /\ UNCHANGED <<pending_emails, files>>
       ELSE IF no_payload(req)
         THEN /\ result' = Reply("email", "could_not_parse", NoTime)
              /\ UNCHANGED <<pending_emails, files>>
       ELSE IF send_time = ValueError
         THEN /\ result' = error_reply("email")
              /\ UNCHANGED <<pending_emails, files>>
       ELSE IF should_schedule(send_time, now)
         THEN IF loaded.raised
              THEN /\ result' = error_reply("email")
                   /\ UNCHANGED <<pending_emails, files>>
              ELSE /\ Room(loaded.value, email_id(now))
                   /\ pending_emails' = save_pending_email(loaded.value, send_time, now)
                   /\ files' = [files EXCEPT !["pending_emails"] = "valid"]
                   /\ result' = Reply("email", "scheduled", email_id(now))
         ELSE /\ \E ok \in BOOLEAN :
                    result' = Reply("email", IF ok THEN "sent_now" ELSE "send_failed",
                                    NoTime)
              /\ UNCHANGED <<pending_emails, files>>
    /\ UNCHANGED <<now, enabled, USER_CHAT_ID, pending_reminders, smtp_log,
                   bot_log, reminders_to_send, email_pc, calendarVars, chatVars,
                   calendar_fails, extracted>>

\* a reminder branch that saves the reminder and falls through to the email
\* branch, which saves an email as well
reminder_without_return(req) ==
    /\ Len(pending_emails) + Len(pending_reminders) = 0
    /\ pending_reminders' = save_pending_reminder(pending_reminders, now + 60, now)
    /\ pending_emails' = save_pending_email(pending_emails, now + 60, now)
    /\ result' = Reply("reminder", "scheduled", reminder_id(now))
    /\ UNCHANGED <<now, enabled, USER_CHAT_ID, smtp_log, bot_log,
                   reminders_to_send, email_pc, calendarVars, chatVars, envVars>>

(* AIHandler.execute_reminder_action *)

execute_reminder_action(req) ==
    LET remind_time == reminder_remind_time(req, now)
        \* save_pending_reminder loads the document before it adds the item
        loaded == load_pending_reminders(files["pending_reminders"], pending_reminders)
    IN
    /\ IF no_payload(req)
         THEN /\ result' = Reply("reminder", "could_not_parse", NoTime)
              /\ UNCHANGED <<pending_reminders, files>>
       ELSE IF remind_time = ValueError
         THEN /\ result' = error_reply("reminder")
              /\ UNCHANGED <<pending_reminders, files>>
       ELSE IF should_schedule(remind_time, now)
         THEN IF loaded.raised
              THEN /\ result' = error_reply("reminder")
                   /\ UNCHANGED <<pending_reminders, files>>
              ELSE /\ Room(loaded.value, reminder_id(now))
                   /\ pending_reminders' =
                          save_pending_reminder(loaded.value, remind_time, now)
                   /\ files' = [files EXCEPT !["pending_reminders"] = "valid"]
                   /\ result' = Reply("reminder", "scheduled", reminder_id(now))
         ELSE /\ result' = Reply("reminder", "sent_now", NoTime)
              /\ UNCHANGED <<pending_reminders, files>>
    /\ UNCHANGED <<now, enabled, USER_CHAT_ID, pending_emails, smtp_log,
                   bot_log, reminders_to_send, email_pc, calendarVars, chatVars,
                   calendar_fails, extracted>>

----------------------------------------------------------------------------
(* /cancel_email <id> and ReminderService.cancel_pending_reminder *)

UnknownId == StartTime - 1

cancel_email_command(id) ==
    /\ result' = Reply("cancel_email",
                       IF can_cancel(pending_emails, id) THEN "cancelled"
                       ELSE "not_found", id)
    /\ pending_emails' = cancel_pending_email(pending_emails, id)
    /\ UNCHANGED <<now, enabled, USER_CHAT_ID, pending_reminders, smtp_log,
                   bot_log, reminders_to_send, email_pc, calendarVars, chatVars, envVars>>

cancel_reminder(id) ==
    /\ result' = Reply("cancel_reminder",
                       IF can_cancel(pending_reminders, id) THEN "cancelled"
                       ELSE "not_found", id)
    /\ pending_reminders' = cancel_pending_reminder(pending_reminders, id)
    /\ UNCHANGED <<now, enabled, USER_CHAT_ID, pending_emails, smtp_log,
                   bot_log, reminders_to_send, email_pc, calendarVars, chatVars, envVars>>

----------------------------------------------------------------------------
(* handlers/scheduled_tasks.py: send_scheduled_emails.  The job runs        *)
(* check_and_send_scheduled_emails without yielding, then awaits one        *)
(* notification per sent email when a chat id is known, then cleans up      *)
(* with probability 1/1440.                                                 *)

send_scheduled_emails(oks, cleanup) ==
    LET after == check_and_send_scheduled_emails(pending_emails, now, oks)
        sent == sent_emails(pending_emails, now, oks)
        notifies == USER_CHAT_ID /\ \E i \in DOMAIN sent : sent[i].ok
    IN
    /\ email_pc = "idle"
    /\ enabled
    /\ smtp_log' = smtp_log \o sent
    /\ IF notifies
         THEN /\ pending_emails' = after
              /\ email_pc' = "notify"
         ELSE /\ pending_emails' = IF cleanup THEN cleanup_old_emails(after, now)
                                   ELSE after
              /\ email_pc' = "idle"
    /\ result' = Reply("send_scheduled_emails", "checked", NoTime)
    /\ UNCHANGED <<now, enabled, USER_CHAT_ID, pending_reminders, bot_log,
                   reminders_to_send, calendarVars, chatVars, envVars>>

\* if not email_service.is_available(): return
send_scheduled_emails_unavailable ==
    /\ email_pc = "idle"
    /\ ~enabled
    /\ result' = Reply("send_scheduled_emails", "not_configured", NoTime)
    /\ UNCHANGED <<now, enabled, USER_CHAT_ID, storeVars, calendarVars, chatVars, envVars>>

\* the notifications have been sent: the random cleanup, then the job ends
send_scheduled_emails_notified(cleanup) ==
    /\ email_pc = "notify"
    /\ email_pc' = "idle"
    /\ pending_emails' = IF cleanup THEN cleanup_old_emails(pending_emails, now)
                         ELSE pending_emails
    /\ result' = Reply("send_scheduled_emails", "notified", NoTime)
    /\ UNCHANGED <<now, enabled, USER_CHAT_ID, pending_reminders, smtp_log,
                   bot_log, reminders_to_send, calendarVars, chatVars, envVars>>

(* handlers/scheduled_tasks.py: send_scheduled_reminders *)

\* a reminder job that asks the service for the due reminders before it
\* looks for the chat id
reminders_marked_without_chat ==
    /\ reminders_to_send = <<>>
    /\ ~USER_CHAT_ID
    /\ pending_reminders' = check_and_send_scheduled_reminders(pending_reminders, now)
    /\ result' = [op |-> "send_scheduled_reminders", outcome |-> "no_chat_id",
                  id |-> NoTime]
    /\ UNCHANGED <<now, enabled, USER_CHAT_ID, pending_emails, smtp_log, bot_log,
                   reminders_to_send, email_pc, calendarVars, chatVars, envVars>>

\* if not USER_CHAT_ID: return
send_scheduled_reminders_no_chat ==
    /\ reminders_to_send = <<>>
    /\ ~USER_CHAT_ID
    /\ result' = Reply("send_scheduled_reminders", "no_chat_id", NoTime)
    /\ UNCHANGED <<now, enabled, USER_CHAT_ID, storeVars, calendarVars, chatVars, envVars>>

\* up to the first await of bot.send_message
send_scheduled_reminders ==
    LET due == reminders_due(pending_reminders, now) IN
    /\ reminders_to_send = <<>>
    /\ USER_CHAT_ID
    /\ pending_reminders' = check_and_send_scheduled_reminders(pending_reminders, now)
    /\ reminders_to_send' = due
    /\ bot_log' = IF due = <<>> THEN bot_log ELSE Append(bot_log, InFlight(Head(due)))
    /\ result' = Reply("send_scheduled_reminders", "checked", NoTime)
    /\ UNCHANGED <<now, enabled, USER_CHAT_ID, pending_emails, smtp_log,
                   email_pc, calendarVars, chatVars, envVars>>

\* a loop whose try block is around the loop instead of inside it
reminders_after_send_abort(list, ok) == IF ok THEN Tail(list) ELSE <<>>

\* what the loop still has to send once send_message returned (ok) or
\* raised: the exception is caught inside the loop body
reminders_after_send(list, ok) == Tail(list)

\* bot.send_message returns (ok) or raises (caught per reminder); the loop
\* goes on to the next reminder, and after the last one cleans up
send_message_returns(ok) ==
    LET rest == reminders_after_send(reminders_to_send, ok)
        done == [bot_log EXCEPT ![Len(bot_log)].outcome =
                                   IF ok THEN "ok" ELSE "failed"]
    IN
    /\ reminders_to_send # <<>>
    /\ reminders_to_send' = rest
    /\ IF rest # <<>>
         THEN /\ bot_log' = Append(done, InFlight(Head(rest)))
              /\ UNCHANGED pending_reminders
         ELSE /\ bot_log' = done
              /\ pending_reminders' = cleanup_old_reminders(pending_reminders, now)
    /\ result' = Reply("send_scheduled_reminders", "send_returned", NoTime)
    /\ UNCHANGED <<now, enabled, USER_CHAT_ID, pending_emails, smtp_log,
                   email_pc, calendarVars, chatVars, envVars>>

----------------------------------------------------------------------------

Next ==
    \/ Advance
    \/ start
    \/ stop_messages
    \/ \E req \in Requests(now) : execute_email_action(req)
    \/ \E req \in Requests(now) : execute_reminder_action(req)
    \/ \E id \in Keys(pending_emails) \cup {UnknownId} : cancel_email_command(id)
    \/ \E id \in Keys(pending_reminders) \cup {UnknownId} : cancel_reminder(id)
    \/ \E oks \in [DueIds(pending_emails, now) -> BOOLEAN], cleanup \in BOOLEAN :
           send_scheduled_emails(oks, cleanup)
    \/ send_scheduled_emails_unavailable
    \/ \E cleanup \in BOOLEAN : send_scheduled_emails_notified(cleanup)
    \/ send_scheduled_reminders_no_chat
    \/ send_scheduled_reminders
    \/ \E ok \in BOOLEAN : send_message_returns(ok)

Spec == Init /\ [][Next]_vars

----------------------------------------------------------------------------
(* Properties of the deferred-work stores *)

Calls(log, id) == Cardinality({i \in DOMAIN log : log[i].id = id})
LoggedIds(log) == {log[i].id : i \in DOMAIN log}
Has(d, id) == \E i \in DOMAIN d : d[i].id = id
PendingIn(d, id) == \E i \in DOMAIN d : d[i].id = id /\ d[i].status = "pending"

\* an item that a tick moved out of Pending is the same in the next state,
\* unless the retention cleanup removed it
Settled(d, dnext) ==
    \A i \in DOMAIN d :
        d[i].status \in {"sent", "failed"} =>
            \A j \in DOMAIN dnext : dnext[j].id = d[i].id => dnext[j] = d[i]

\* C1: every scheduled email and every personal reminder is handed to its
\* collaborator at most once, and an item that a tick moved out of Pending is
\* never changed by a later step (a later tick skips it).
C1_AtMostOnce ==
    [][ /\ \A id \in LoggedIds(smtp_log') : Calls(smtp_log', id) <= 1
        /\ \A id \in LoggedIds(bot_log') : Calls(bot_log', id) <= 1
        /\ Settled(pending_emails, pending_emails')
        /\ Settled(pending_reminders, pending_reminders')
        /\ \A i \in DOMAIN pending_emails :
               pending_emails[i].status \in {"sent", "failed"} =>
                   Calls(smtp_log', pending_emails[i].id) = 1
      ]_vars

\* a later email tick executed another item while an item sent by an earlier
\* tick is still in the store as sent or failed
C1_Witness ==
    \E i, j \in DOMAIN smtp_log :
        /\ smtp_log[i].tick < smtp_log[j].tick
        /\ \E k \in DOMAIN pending_emails :
               /\ pending_emails[k].id = smtp_log[i].id
               /\ pending_emails[k].status \in {"sent", "failed"}

\* the time the specification schedules with: the resolved time, moved to
\* the start of the next minute when it falls in the minute of the reference
ClaimedTime(req, t) ==
    IF req.time_str = "now" THEN t
    ELSE IF MinuteFloor(req.parses_to) = MinuteFloor(t) THEN MinuteFloor(t) + 60
    ELSE req.parses_to

Resolves(req) == req.data /\ (req.time_str = "now" \/ req.parses_to # NoTime)
SameMinute(req, t) ==
    req.data /\ req.time_str = "text" /\ req.parses_to # NoTime
             /\ MinuteFloor(req.parses_to) = MinuteFloor(t)

\* the reply says "scheduled" and the document holds the new Pending item
Persisted(d, reply, t, scheduled_time) ==
    /\ reply.outcome = "scheduled"
    /\ \E i \in DOMAIN d :
           /\ d[i].id = reply.id
           /\ d[i].status = "pending"
           /\ d[i].scheduled_time = scheduled_time

Immediate(reply) == reply.outcome \in {"sent_now", "send_failed"}

\* C2: a request that resolves to a time is persisted as a Pending item if
\* and only if that time is strictly later than the reference time, and is
\* executed immediately otherwise: exactly one of the two, never neither.
C2_ScheduleXorImmediate ==
    [][ \A req \in Requests(now) :
          /\ (enabled /\ Resolves(req) /\ execute_email_action(req)) =>
                IF ClaimedTime(req, now) > now
                THEN Persisted(pending_emails', result', now, ClaimedTime(req, now))
                ELSE Immediate(result') /\ pending_emails' = pending_emails
          /\ (Resolves(req) /\ execute_reminder_action(req)) =>
                IF ClaimedTime(req, now) > now
                THEN Persisted(pending_reminders', result', now, ClaimedTime(req, now))
                ELSE Immediate(result') /\ pending_reminders' = pending_reminders
      ]_vars

\* C3: a resolved time in the minute of the reference time is replaced by
\* the start of the next minute, and the request is scheduled with it, at
\* every minute 0..59 of the hour.
C3_SameMinuteCorrection ==
    [][ \A req \in Requests(now) :
          /\ (enabled /\ SameMinute(req, now) /\ execute_email_action(req)) =>
                Persisted(pending_emails', result', now, MinuteFloor(now) + 60)
          /\ (SameMinute(req, now) /\ execute_reminder_action(req)) =>
                Persisted(pending_reminders', result', now, MinuteFloor(now) + 60)
      ]_vars

\* C4: cancel(id) reports success exactly when the id names a Pending item,
\* which it then sets to cancelled; otherwise it reports failure and the
\* documents are left as they were.
C4_Cancel ==
    [][ \A id \in Keys(pending_emails) \cup Keys(pending_reminders) \cup {UnknownId} :
          /\ cancel_email_command(id) =>
                IF PendingIn(pending_emails, id)
                THEN /\ result'.outcome = "cancelled"
                     /\ Len(pending_emails') = Len(pending_emails)
                     /\ \A i \in DOMAIN pending_emails :
                           pending_emails'[i] =
                              IF pending_emails[i].id = id
                              THEN [pending_emails[i] EXCEPT !.status = "cancelled"]
                              ELSE pending_emails[i]
                ELSE /\ result'.outcome = "not_found"
                     /\ pending_emails' = pending_emails
          /\ cancel_reminder(id) =>
                IF PendingIn(pending_reminders, id)
                THEN /\ result'.outcome = "cancelled"
                     /\ Len(pending_reminders') = Len(pending_reminders)
                     /\ \A i \in DOMAIN pending_reminders :
                           pending_reminders'[i] =
                              IF pending_reminders[i].id = id
                              THEN [pending_reminders[i] EXCEPT !.status = "cancelled"]
                              ELSE pending_reminders[i]
                ELSE /\ result'.outcome = "not_found"
                     /\ pending_reminders' = pending_reminders
      ]_vars

\* /cancel_email on an email that a tick already sent answered "not found"
C4_Witness ==
    /\ result.op = "cancel_email"
    /\ result.outcome = "not_found"
    /\ \E i \in DOMAIN pending_emails :
           pending_emails[i].id = result.id /\ pending_emails[i].status = "sent"

----------------------------------------------------------------------------
(* Calendar reminders: CalendarHandler.get_events_needing_reminders,        *)
(* mark_reminder_sent, cleanup_old_reminders and the job                    *)
(* send_calendar_reminders.  sent_reminders is a set of reminder ids; ids   *)
(* of events that are no longer on the calendar are only counted (others).  *)

before_reminder_id(event_id) == [event |-> event_id, type |-> "before"]
at_time_reminder_id(event_id) == [event |-> event_id, type |-> "at_time"]

\* the reminder an event needs at time t, "none" if it needs none
reminder_needed(ev, t, sent) ==
    LET seconds_until_event == ev.start - t IN
    IF ev.start <= t \/ ev.start > t + 3600 THEN "none"
    ELSE IF /\ REMINDER_MINUTES_BEFORE * 60 <= seconds_until_event
            /\ seconds_until_event <= (REMINDER_MINUTES_BEFORE + 5) * 60
            /\ before_reminder_id(ev.id) \notin sent.ids
         THEN "before"
    ELSE IF /\ 0 <= seconds_until_event
            /\ seconds_until_event <= 5 * 60
            /\ at_time_reminder_id(ev.id) \notin sent.ids
         THEN "at_time"
    ELSE "none"

\* CalendarHandler.get_events_needing_reminders; evs is ordered by start
get_events_needing_reminders(evs, t, sent) ==
    SeqMap(SelectSeq(evs, LAMBDA ev : reminder_needed(ev, t, sent) # "none"),
           LAMBDA ev : [reminder_id |-> [event |-> ev.id,
                                         type |-> reminder_needed(ev, t, sent)],
                        tick |-> t])

\* len(self.sent_reminders)
SentSize(sent) == Cardinality(sent.ids) + sent.others

\* CalendarHandler.mark_reminder_sent
mark_reminder_sent(sent, rid) == [sent EXCEPT !.ids = @ \cup {rid}]

\* a cleanup that clears the set whatever its size
cleanup_whatever_size(sent) == [ids |-> {}, others |-> 0]

\* CalendarHandler.cleanup_old_reminders
cleanup_old_sent_reminders(sent) ==
    IF SentSize(sent) > max_sent_reminders
    THEN [ids |-> {}, others |-> 0]
    ELSE sent

Event(id, start_time) == [id |-> id, start |-> start_time]

\* calendars of the scenario: one or two events starting 16 to 20 minutes
\* after the first clock value
Calendars ==
    { <<Event("e1", StartTime + 1200)>>,
      <<Event("e2", StartTime + 960), Event("e1", StartTime + 1200)>> }

CalendarInit ==
    /\ now = StartTime
    /\ enabled = FALSE
    /\ USER_CHAT_ID = FALSE
    /\ pending_emails = <<>>
    /\ pending_reminders = <<>>
    /\ smtp_log = <<>>
    /\ bot_log = <<>>
    /\ reminders_to_send = <<>>
    /\ email_pc = "idle"
    /\ bot_data = <<>>
    /\ files = AllValid
    /\ calendar_fails = FALSE
    /\ extracted = NoPayload
    /\ result = NoResult
    /\ is_authenticated \in BOOLEAN
    /\ sent_reminders \in {[ids |-> {}, others |-> n] :
                              n \in {0, max_sent_reminders - 1, max_sent_reminders}}
    /\ events \in Calendars
    /\ calendar_log = <<>>
    /\ calendar_queue = <<>>
    /\ last_calendar_run = NoTime
    /\ calendar_calls = <<>>

AdvanceMinute ==
    /\ now + 60 <= StartTime + 60 * MaxMinutes
    /\ now' = now + 60
    /\ result' = NoResult
    /\ UNCHANGED <<enabled, USER_CHAT_ID, storeVars, calendarVars, chatVars, envVars>>

\* the interval trigger of the job, one instance at a time
CalendarJobDue ==
    /\ calendar_queue = <<>>
    /\ \/ last_calendar_run = NoTime
       \/ now >= last_calendar_run + REMINDER_CHECK_INTERVAL_MINUTES * 60

CalendarInFlight(entry) ==
    [reminder_id |-> entry.reminder_id, tick |-> entry.tick, outcome |-> "inflight"]

\* if not USER_CHAT_ID: return / if not calendar_handler.is_authenticated: return
send_calendar_reminders_skipped ==
    /\ CalendarJobDue
    /\ ~(USER_CHAT_ID /\ is_authenticated)
    /\ last_calendar_run' = now
    /\ result' = Reply("send_calendar_reminders", "skipped", NoTime)
    /\ UNCHANGED <<now, enabled, USER_CHAT_ID, storeVars, chatVars, envVars, is_authenticated,
                   sent_reminders, events, calendar_log, calendar_queue,
                   calendar_calls>>

\* up to the first await of bot.send_message
send_calendar_reminders ==
    LET needing == get_events_needing_reminders(events, now, sent_reminders) IN
    /\ CalendarJobDue
    /\ USER_CHAT_ID /\ is_authenticated
    /\ last_calendar_run' = now
    /\ calendar_queue' = needing
    /\ calendar_log' = IF needing = <<>> THEN calendar_log
                       ELSE Append(calendar_log, CalendarInFlight(Head(needing)))
    /\ result' = Reply("send_calendar_reminders", "checked", NoTime)
    /\ UNCHANGED <<now, enabled, USER_CHAT_ID, storeVars, chatVars, envVars, is_authenticated,
                   sent_reminders, events, calendar_calls>>

\* a job that marks the reminder whether the message went out or not
calendar_message_marks_whatever(ok) ==
    LET rest == Tail(calendar_queue)
        done == [calendar_log EXCEPT ![Len(calendar_log)].outcome =
                                        IF ok THEN "ok" ELSE "failed"]
        marked == mark_reminder_sent(sent_reminders,
                                     Head(calendar_queue).reminder_id)
    IN
    /\ calendar_queue # <<>>
    /\ calendar_queue' = rest
    /\ IF rest # <<>>
         THEN /\ calendar_log' = Append(done, CalendarInFlight(Head(rest)))
              /\ sent_reminders' = marked
         ELSE /\ calendar_log' = done
              /\ sent_reminders' = cleanup_old_sent_reminders(marked)
    /\ result' = Reply("send_calendar_reminders", "send_returned", NoTime)
    /\ UNCHANGED <<now, enabled, USER_CHAT_ID, storeVars, chatVars, envVars, is_authenticated,
                   events, last_calendar_run, calendar_calls>>

\* bot.send_message returns (ok): the reminder is marked; or raises: it is
\* not.  Then the next event, and after the last one the cleanup.
calendar_message_returns(ok) ==
    LET rest == Tail(calendar_queue)
        done == [calendar_log EXCEPT ![Len(calendar_log)].outcome =
                                        IF ok THEN "ok" ELSE "failed"]
        marked == IF ok
                  THEN mark_reminder_sent(sent_reminders,
                                          Head(calendar_queue).reminder_id)
                  ELSE sent_reminders
    IN
    /\ calendar_queue # <<>>
    /\ calendar_queue' = rest
    /\ IF rest # <<>>
         THEN /\ calendar_log' = Append(done, CalendarInFlight(Head(rest)))
              /\ sent_reminders' = marked
         ELSE /\ calendar_log' = done
              /\ sent_reminders' = cleanup_old_sent_reminders(marked)
    /\ result' = Reply("send_calendar_reminders", "send_returned", NoTime)
    /\ UNCHANGED <<now, enabled, USER_CHAT_ID, storeVars, chatVars, envVars, is_authenticated,
                   events, last_calendar_run, calendar_calls>>

CalendarNext ==
    \/ AdvanceMinute
    \/ start
    \/ stop_messages
    \/ send_calendar_reminders_skipped
    \/ send_calendar_reminders
    \/ \E ok \in BOOLEAN : calendar_message_returns(ok)

SpecCalendar == CalendarInit /\ [][CalendarNext]_vars

\* successful sends of one calendar reminder
CalendarSends(rid) ==
    Cardinality({k \in DOMAIN calendar_log :
                    calendar_log[k].reminder_id = rid /\ calendar_log[k].outcome = "ok"})

\* C7: for one calendar event and one reminder class the notification is
\* sent at most once over all calendar-reminder ticks, cleanup included.
C7_CalendarReminderAtMostOnce ==
    \A k \in DOMAIN calendar_log : CalendarSends(calendar_log[k].reminder_id) <= 1

\* the same system observed over more than the retention window
NextRetention == Next \/ AdvanceDays
SpecRetention == Init /\ [][NextRetention]_vars


QueuedIds == {reminders_to_send[i].id : i \in DOMAIN reminders_to_send}
\* listed by the running reminder tick, send_message not yet called for it
WaitingIds == {reminders_to_send[i].id : i \in DOMAIN reminders_to_send \ {1}}

\* no item is both cancelled and handed to its collaborator
NeverCancelledAndSent ==
    /\ \A i \in DOMAIN pending_emails :
          pending_emails[i].status = "cancelled" =>
              pending_emails[i].id \notin LoggedIds(smtp_log)
    /\ \A i \in DOMAIN pending_reminders :
          pending_reminders[i].status = "cancelled" =>
              pending_reminders[i].id \notin LoggedIds(bot_log) \cup QueuedIds
    /\ (result.op = "cancel_email" /\ result.outcome = "cancelled") =>
          result.id \notin LoggedIds(smtp_log)
    /\ (result.op = "cancel_reminder" /\ result.outcome = "cancelled") =>
          result.id \notin LoggedIds(bot_log) \cup QueuedIds

\* C5: a cancel processed after a tick has begun executing the item (the
\* item is in the list of the suspended reminder tick, or was handed to the
\* mail transport) reports "not found" and leaves the status the tick wrote;
\* no item ends up both cancelled and sent.
C5_CancelLosesRace ==
    [][ /\ \A id \in QueuedIds :
              cancel_reminder(id) =>
                  /\ result'.outcome = "not_found"
                  /\ pending_reminders' = pending_reminders
        /\ \A id \in LoggedIds(smtp_log) :
              cancel_email_command(id) =>
                  /\ result'.outcome = "not_found"
                  /\ pending_emails' = pending_emails
        /\ NeverCancelledAndSent'
      ]_vars

\* the reminder tick is suspended in send_message for a reminder and the
\* cancel of that reminder has just answered "not found"
C5_Witness ==
    /\ reminders_to_send # <<>>
    /\ result.op = "cancel_reminder"
    /\ result.outcome = "not_found"
    /\ result.id = Head(reminders_to_send).id
    /\ bot_log[Len(bot_log)].outcome = "inflight"
    /\ \E i \in DOMAIN pending_reminders :
          pending_reminders[i].id = result.id /\ pending_reminders[i].status = "sent"

\* C6: an insert returns an id that no item of the store has, so it never
\* overwrites an item and the store grows by exactly one item.
C6_FreshId ==
    [][ \A req \in Requests(now) :
          /\ (execute_email_action(req) /\ result'.outcome = "scheduled") =>
                /\ ~Has(pending_emails, result'.id)
                /\ Len(pending_emails') = Len(pending_emails) + 1
          /\ (execute_reminder_action(req) /\ result'.outcome = "scheduled") =>
                /\ ~Has(pending_reminders, result'.id)
                /\ Len(pending_reminders') = Len(pending_reminders) + 1
      ]_vars

\* after the reminder tick, every reminder whose time has come and that was
\* not cancelled is sent and was handed to the notification channel once
\* (or is next in the list of the running tick)
DueRemindersSent ==
    \A i \in DOMAIN pending_reminders :
        (pending_reminders[i].scheduled_time < now
            /\ pending_reminders[i].status # "cancelled") =>
           /\ pending_reminders[i].status = "sent"
           /\ \/ Calls(bot_log, pending_reminders[i].id) = 1
                    /\ pending_reminders[i].id \notin WaitingIds
              \/ Calls(bot_log, pending_reminders[i].id) = 0
                    /\ pending_reminders[i].id \in WaitingIds

ReminderTickRan ==
    result.op = "send_scheduled_reminders"
        /\ result.outcome \in {"checked", "no_chat_id"}

\* C8 as stated: a Pending reminder whose scheduled_time has passed is, by
\* the reminder tick that runs then, set to sent and handed to the
\* notification channel exactly once.
C8_TickSendsDueReminder == ReminderTickRan => DueRemindersSent

\* C9: the status a tick records reflects the outcome of the collaborator
\* call: sent only if the send succeeded, failed if it failed.
C9_StatusReflectsOutcome ==
    /\ \A k \in DOMAIN smtp_log : \A i \in DOMAIN pending_emails :
          pending_emails[i].id = smtp_log[k].id =>
              pending_emails[i].status = IF smtp_log[k].ok THEN "sent" ELSE "failed"
    /\ \A k \in DOMAIN bot_log : \A i \in DOMAIN pending_reminders :
          (pending_reminders[i].id = bot_log[k].id /\ bot_log[k].outcome = "failed") =>
              pending_reminders[i].status = "failed"

\* C10: a failed send does not abort the tick: every item that was due in
\* the tick is executed, and the status of every executed item is in the
\* document.
C10_FailureDoesNotAbortTick ==
    /\ \A i \in DOMAIN pending_reminders :
          pending_reminders[i].status = "sent" =>
              \/ Calls(bot_log, pending_reminders[i].id) = 1
              \/ pending_reminders[i].id \in WaitingIds
    /\ \A k \in DOMAIN bot_log :
          /\ bot_log[k].outcome = "inflight" =>
                (k = Len(bot_log) /\ reminders_to_send # <<>>)
          /\ \A i \in DOMAIN pending_reminders :
                pending_reminders[i].id = bot_log[k].id =>
                    pending_reminders[i].status # "pending"
    /\ (result.op = "send_scheduled_emails" /\ result.outcome = "checked") =>
          \A i \in DOMAIN pending_emails :
              (pending_emails[i].scheduled_time <= now
                  /\ pending_emails[i].status # "cancelled") =>
                 /\ pending_emails[i].status \in {"sent", "failed"}
                 /\ Calls(smtp_log, pending_emails[i].id) = 1
    /\ \A k \in DOMAIN smtp_log : \A i \in DOMAIN pending_emails :
          pending_emails[i].id = smtp_log[k].id =>
              pending_emails[i].status \in {"sent", "failed"}

\* in one reminder tick the send of one reminder failed and the next
\* reminder of the list was sent all the same
C10_Witness ==
    \E k \in DOMAIN bot_log :
        /\ k + 1 \in DOMAIN bot_log
        /\ bot_log[k].outcome = "failed"
        /\ bot_log[k + 1].tick = bot_log[k].tick
        /\ bot_log[k + 1].outcome = "ok"
        /\ bot_log[k + 1].id # bot_log[k].id

----------------------------------------------------------------------------
(* Message classification: AIHandler.detect_calendar_action,                *)
(* detect_reminder_action, detect_email_action and handle_message.          *)
(* Messages are strings; "pattern in message_lower" is substring search.    *)

Ch(msg, i) == SubSeq(msg, i, i)

MatchAt(msg, i, pat) ==
    i >= 1 /\ i + Len(pat) - 1 <= Len(msg) /\ SubSeq(msg, i, i + Len(pat) - 1) = pat

\* pat in msg
Contains(msg, pat) == \E i \in 1..Len(msg) : MatchAt(msg, i, pat)

\* any(pattern in msg for pattern in patterns)
ContainsAny(msg, patterns) == \E pat \in patterns : Contains(msg, pat)

UpperLetters == "ABCDEFGHIJKLMNOPQRSTUVWXYZ"
LowerLetters == "abcdefghijklmnopqrstuvwxyz"
Digits == "0123456789"

InClass(c, class) == \E k \in 1..Len(class) : Ch(class, k) = c

LowerChar(c) ==
    IF InClass(c, UpperLetters)
    THEN Ch(LowerLetters, CHOOSE k \in 1..Len(UpperLetters) : Ch(UpperLetters, k) = c)
    ELSE c

RECURSIVE LowerFrom(_, _)
LowerFrom(msg, i) ==
    IF i > Len(msg) THEN "" ELSE LowerChar(Ch(msg, i)) \o LowerFrom(msg, i + 1)

\* str.lower()
lower(msg) == LowerFrom(msg, 1)

IsDigit(msg, i) == i >= 1 /\ i <= Len(msg) /\ InClass(Ch(msg, i), Digits)
IsLetter(msg, i) ==
    i >= 1 /\ i <= Len(msg) /\ InClass(LowerChar(Ch(msg, i)), LowerLetters)
\* \w
IsWord(msg, i) == IsDigit(msg, i) \/ IsLetter(msg, i) \/ MatchAt(msg, i, "_")
\* \b just before position i
Boundary(msg, i) == IsWord(msg, i - 1) # IsWord(msg, i)

\* [A-Za-z0-9._%+-]
IsLocalChar(msg, i) ==
    IsDigit(msg, i) \/ IsLetter(msg, i)
        \/ (i >= 1 /\ i <= Len(msg) /\ InClass(Ch(msg, i), "._%+-"))
\* [A-Za-z0-9.-]
IsDomainChar(msg, i) ==
    IsDigit(msg, i) \/ IsLetter(msg, i)
        \/ (i >= 1 /\ i <= Len(msg) /\ InClass(Ch(msg, i), ".-"))
\* [A-Z|a-z]
IsTldChar(msg, i) == IsLetter(msg, i) \/ MatchAt(msg, i, "|")

\* re.search(r'\b[A-Za-z0-9._%+-]+@[A-Za-z0-9.-]+\.[A-Z|a-z]{2,}\b', msg):
\* the local part is msg[a..at-1], the domain msg[at+1..dot-1], the last
\* label msg[dot+1..z]
has_email_address(msg) ==
    \E a, at, dot, z \in 1..Len(msg) :
        /\ a < at /\ at + 1 < dot /\ dot + 2 <= z
        /\ Boundary(msg, a)
        /\ \A i \in a..(at - 1) : IsLocalChar(msg, i)
        /\ MatchAt(msg, at, "@")
        /\ \A i \in (at + 1)..(dot - 1) : IsDomainChar(msg, i)
        /\ MatchAt(msg, dot, ".")
        /\ \A i \in (dot + 1)..z : IsTldChar(msg, i)
        /\ Boundary(msg, z + 1)

create_patterns ==
    {"schedule a", "add to calendar", "create meeting", "book appointment",
     "set reminder", "plan meeting", "i have class at", "i have meeting at",
     "schedule meeting", "book a", "arrange meeting", "set up meeting",
     "create appointment", "can you set me", "set me a", "can you schedule",
     "can you create", "can you add", "can you book", "set a schedule",
     "make me a", "add a", "put on my calendar", "schedule for me"}

delete_patterns ==
    {"remove my", "delete my", "cancel my", "clear my schedule", "remove my schedule",
     "delete all events", "clear all events", "remove all meetings", "cancel all",
     "clear my calendar", "remove everything", "delete everything",
     "i want to remove all", "delete all my", "remove all of my",
     "remove all my meetings", "delete all my meetings", "cancel all my meetings",
     "clear all my events", "remove all my events", "delete all my events"}

query_patterns ==
    {"what's on my", "what do i have", "am i free", "do i have", "check my",
     "show my", "when is my", "any meetings", "any events today", "any events tomorrow",
     "schedule today", "schedule tomorrow", "busy today", "busy tomorrow"}

confirmation_words == {"yes", "sure", "confirm", "definitely", "absolutely"}

email_patterns ==
    {"send email", "email", "send an email", "send a message",
     "send to", "email to", "message to", "write to",
     "send reminder", "send notification", "notify",
     "compose email", "draft email", "send mail"}

reminder_patterns ==
    {"remind me", "reminds me", "notify me", "tell me", "alert me",
     "set a reminder", "set reminder", "reminder",
     "wake me up", "ping me", "buzz me",
     "don't let me forget", "make sure i remember",
     "you have to notify", "you have to remind",
     "you have to tell", "need to remind", "need to notify"}

email_exclusion_patterns ==
    {"send email", "email to", "email ", "send to", "compose email"}

calendar_exclusion_patterns ==
    {"schedule", "calendar", "create meeting", "add to calendar",
     "meeting with", "appointment with", "book ", "i have class",
     "i have meeting", "schedule meeting"}

NoAction == [action |-> "none"]

\* AIHandler._extract_delete_pattern
extract_delete_pattern(message) ==
    LET message_lower == lower(message) IN
    IF Contains(message_lower, "meeting") THEN "meeting"
    ELSE IF Contains(message_lower, "class") THEN "class"
    ELSE IF Contains(message_lower, "appointment") THEN "appointment"
    ELSE IF Contains(message_lower, "call") THEN "call"
    ELSE LET quotes == {i \in 1..Len(message) : MatchAt(message, i, "\"")} IN
         \* re.search(r'"([^"]*)"', message).group(1): the text between the
         \* first two quotation marks, which may be empty
         IF Cardinality(quotes) >= 2
         THEN LET i == CHOOSE q \in quotes : \A r \in quotes : q <= r
                  j == CHOOSE q \in quotes \ {i} : \A r \in quotes \ {i} : q <= r
              IN  SubSeq(message, i + 1, j - 1)
         ELSE ""

\* AIHandler.detect_calendar_action
detect_calendar_action(user_message) ==
    LET message_lower == lower(user_message) IN
    IF ContainsAny(message_lower, query_patterns) THEN NoAction
    ELSE IF ContainsAny(message_lower, delete_patterns) THEN
        IF Contains(message_lower, "all my meetings")
              \/ Contains(message_lower, "all my events")
        THEN IF Contains(message_lower, "meetings")
             THEN [action |-> "delete_pattern", pattern |-> "meeting"]
             ELSE [action |-> "delete_pattern", pattern |-> "event"]
        ELSE IF Contains(message_lower, "clear my schedule")
                  \/ Contains(message_lower, "clear my calendar")
                  \/ Contains(message_lower, "clear all")
        THEN [action |-> "clear_all",
              confirmed |-> ContainsAny(message_lower, confirmation_words)]
        ELSE [action |-> "delete_pattern",
              pattern |-> extract_delete_pattern(user_message)]
    ELSE IF ContainsAny(message_lower, create_patterns) THEN [action |-> "create"]
    ELSE NoAction

\* AIHandler.detect_email_action
detect_email_action(user_message) ==
    IF ContainsAny(lower(user_message), email_patterns)
          /\ has_email_address(user_message)
    THEN [action |-> "send_email"]
    ELSE NoAction

\* \d{n} at position i
DigitsAt(msg, i, n) == \A k \in i..(i + n - 1) : IsDigit(msg, k)

\* \d{1,2}:\d{2} at position i, with n digits before the colon
ClockAt(msg, i, n) ==
    DigitsAt(msg, i, n) /\ MatchAt(msg, i + n, ":") /\ DigitsAt(msg, i + n + 1, 2)

\* \d{1,2}(am|pm) at position i, with n digits
HourAt(msg, i, n) ==
    DigitsAt(msg, i, n)
        /\ (MatchAt(msg, i + n, "am") \/ MatchAt(msg, i + n, "pm"))

\* "remind" somewhere at or after position i
RemindFrom(msg, i) == \E j \in i..Len(msg) : MatchAt(msg, j, "remind")

\* any(re.search(pattern, message_lower) for pattern in time_patterns)
has_time_pattern(m) ==
    \/ \E i \in 1..Len(m), n \in 1..2 : MatchAt(m, i, "at ") /\ ClockAt(m, i + 3, n)
    \/ \E i \in 1..Len(m), n \in 1..2 : MatchAt(m, i, "at ") /\ HourAt(m, i + 3, n)
    \/ \E i, j, k \in 1..Len(m) :
          /\ MatchAt(m, i, "in ") /\ i + 3 <= j /\ j < k
          /\ \A d \in (i + 3)..j : IsDigit(m, d)
          /\ \A w \in (j + 1)..(k - 1) : MatchAt(m, w, " ")
          /\ \E unit \in {"minute", "hour", "min", "hr"} : MatchAt(m, k, unit)
    \/ \E i \in 1..Len(m) : MatchAt(m, i, "tomorrow at ") /\ IsDigit(m, i + 12)
    \/ Contains(m, "later today")
    \/ Contains(m, "tonight at")
    \/ \E i \in 1..Len(m) : MatchAt(m, i, "today at ") /\ IsDigit(m, i + 9)
    \/ \E i \in 1..Len(m), n \in 1..2 : ClockAt(m, i, n) /\ RemindFrom(m, i + n + 3)
    \/ \E i \in 1..Len(m), n \in 1..2 : HourAt(m, i, n) /\ RemindFrom(m, i + n + 2)

\* any(re.search(pattern, message_lower) for pattern in time_start_patterns)
has_time_start_pattern(m) ==
    \/ \E n \in 1..2 : MatchAt(m, 1, "at ") /\ ClockAt(m, 4, n)
    \/ \E n \in 1..2 : MatchAt(m, 1, "at ") /\ HourAt(m, 4, n)
    \/ \E n \in 1..2 : ClockAt(m, 1, n)

\* AIHandler.detect_reminder_action
detect_reminder_action(user_message) ==
    LET message_lower == lower(user_message) IN
    IF Contains(user_message, "@") THEN NoAction
    ELSE IF ContainsAny(message_lower, email_exclusion_patterns) THEN NoAction
    ELSE IF ContainsAny(message_lower, calendar_exclusion_patterns) THEN NoAction
    ELSE IF ContainsAny(message_lower, reminder_patterns)
         THEN [action |-> "set_reminder"]
    ELSE IF (has_time_pattern(message_lower) \/ has_time_start_pattern(message_lower))
              /\ (Contains(message_lower, "me") \/ Contains(message_lower, "i"))
         THEN [action |-> "set_reminder"]
    ELSE IF has_time_start_pattern(message_lower) /\ Len(user_message) > 20
         THEN [action |-> "set_reminder"]
    ELSE NoAction

\* the path handle_message takes: calendar first (when authenticated), then
\* reminder, then email, then the plain conversation
handle_message_path(user_message, authenticated) ==
    IF authenticated /\ detect_calendar_action(user_message) # NoAction THEN "calendar"
    ELSE IF detect_reminder_action(user_message) # NoAction THEN "reminder"
    ELSE IF detect_email_action(user_message) # NoAction THEN "email"
    ELSE "chat"

\* inbound messages of the scenarios
Messages ==
    {"send email to a@b.com reminder tomorrow at 9am",
     "Email bob@x.org to schedule a call tomorrow",
     "what's on my calendar today",
     "do i have anything? remind me at 5pm to call mom",
     "clear my schedule",
     "clear my schedule, yes i'm sure",
     "clear my calendar from yesterday",
     "clear all",
     "send an email",
     "remind me in 30 minutes to call mom",
     "set reminder for 5pm to stretch",
     "delete my meeting with bob",
     "delete my stuff",
     "delete my \"\" please",
     "remove my \"gym\" slot",
     "schedule a meeting tomorrow at 3pm",
     "at 2:05pm call the bank about loan",
     "hello there"}

\* the classification of every message, computed once
calendar_action == [msg \in Messages |-> detect_calendar_action(msg)]
reminder_action == [msg \in Messages |-> detect_reminder_action(msg)]
email_action == [msg \in Messages |-> detect_email_action(msg)]
path_of == [msg \in Messages |-> [a \in BOOLEAN |-> handle_message_path(msg, a)]]

----------------------------------------------------------------------------
(* handlers/ai_chat.py handle_message and the /email command *)

CalendarCall(name, arg) == [call |-> name, arg |-> arg]

\* a dispatcher that hands every pattern to the calendar
any_pattern(action_info) == TRUE

\* AIHandler.execute_calendar_action, line 449: "if pattern:"
has_pattern(action_info) == action_info.pattern # ""

\* the branches of execute_calendar_action that send a request to the
\* calendar service
calls_calendar(action_info, req) ==
    \/ action_info.action = "clear_all" /\ action_info.confirmed
    \/ action_info.action = "delete_pattern" /\ has_pattern(action_info)
    \/ action_info.action = "create" /\ req.data

\* AIHandler.execute_calendar_action, called with the calendar authenticated;
\* req.data tells whether parse_meeting_request returned meeting details
execute_calendar_action(action_info, req) ==
    /\ IF calendar_fails /\ calls_calendar(action_info, req)
         THEN /\ result' = error_reply("calendar")
              /\ UNCHANGED <<calendar_calls, events>>
       ELSE IF action_info.action = "clear_all"
         THEN IF action_info.confirmed
              THEN /\ Len(calendar_calls) < MaxCalls
                   /\ calendar_calls' =
                         Append(calendar_calls, CalendarCall("clear_all_events", ""))
                   /\ events' = <<>>
                   /\ result' = Reply("calendar", "cleared", NoTime)
              ELSE /\ result' = Reply("calendar", "confirm_clear", NoTime)
                   /\ UNCHANGED <<calendar_calls, events>>
       ELSE IF action_info.action = "delete_pattern"
         THEN IF has_pattern(action_info)
              THEN /\ Len(calendar_calls) < MaxCalls
                   /\ calendar_calls' =
                         Append(calendar_calls,
                                CalendarCall("delete_events_by_title",
                                             action_info.pattern))
                   /\ result' = Reply("calendar", "deleted", NoTime)
                   /\ UNCHANGED events
              ELSE /\ result' = Reply("calendar", "specify_pattern", NoTime)
                   /\ UNCHANGED <<calendar_calls, events>>
       ELSE IF req.data
              THEN /\ Len(calendar_calls) < MaxCalls
                   /\ calendar_calls' =
                         Append(calendar_calls, CalendarCall("create_calendar_event", ""))
                   /\ result' = Reply("calendar", "created", NoTime)
                   /\ UNCHANGED events
              ELSE /\ result' = Reply("calendar", "could_not_parse", NoTime)
                   /\ UNCHANGED <<calendar_calls, events>>
    /\ UNCHANGED <<now, enabled, USER_CHAT_ID, storeVars, chatVars, envVars, is_authenticated,
                   sent_reminders, calendar_log, calendar_queue, last_calendar_run>>

\* AIHandler.generate_response: the conversation model answers
generate_response ==
    /\ result' = Reply("chat", "answered", NoTime)
    /\ UNCHANGED <<now, enabled, USER_CHAT_ID, storeVars, calendarVars, chatVars, envVars>>

\* handlers/ai_chat.py handle_message
handle_message(user_message, req) ==
    LET path == path_of[user_message][is_authenticated] IN
    IF path = "calendar"
    THEN execute_calendar_action(calendar_action[user_message], req)
    ELSE IF path = "reminder" THEN execute_reminder_action(req)
    ELSE IF path = "email" THEN execute_email_action(req)
    ELSE generate_response

Session(send_time_str, send_time) ==
    [send_time_str |-> send_time_str, send_time |-> send_time]

\* handlers/email_commands.py email_command
email_command(has_args, req) ==
    LET send_time == parse_send_time(req, now) IN
    /\ IF ~enabled
         THEN /\ result' = Reply("email_command", "not_configured", NoTime)
              /\ UNCHANGED bot_data
       ELSE IF ~has_args
         THEN /\ result' = Reply("email_command", "usage", NoTime)
              /\ UNCHANGED bot_data
       ELSE IF ~req.data
         THEN /\ result' = Reply("email_command", "could_not_parse", NoTime)
              /\ UNCHANGED bot_data
       ELSE /\ Len(bot_data) < MaxSessions
            /\ bot_data' = Append(bot_data,
                                  IF send_time = NoTime THEN Session("now", now)
                                  ELSE Session(req.time_str, send_time))
            /\ result' = Reply("email_command", "preview", NoTime)
    /\ UNCHANGED <<now, enabled, USER_CHAT_ID, storeVars, calendarVars, envVars>>

\* email_data['send_time'].lower() == 'now' or send_time <= current_time
send_immediately(session, current_time) ==
    session.send_time_str = "now" \/ session.send_time <= current_time

Remove(seq, k) == [i \in 1..(Len(seq) - 1) |-> IF i < k THEN seq[i] ELSE seq[i + 1]]

\* handlers/email_commands.py handle_email_confirmation; key 0 is a key that
\* is not in bot_data
handle_email_confirmation(action, key) ==
    IF key \notin DOMAIN bot_data
    THEN /\ result' = Reply("email_confirmation", "expired", NoTime)
         /\ UNCHANGED <<now, enabled, USER_CHAT_ID, storeVars, calendarVars, chatVars, envVars>>
    ELSE
      LET send_time == bot_data[key].send_time
      IN
      /\ IF action = "send"
           THEN IF send_immediately(bot_data[key], now)
                THEN /\ \E ok \in BOOLEAN :
                          result' = Reply("email_confirmation",
                                          IF ok THEN "sent_now" ELSE "send_failed", NoTime)
                     /\ UNCHANGED pending_emails
                ELSE /\ Room(pending_emails, email_id(now))
                     /\ pending_emails' = save_pending_email(pending_emails, send_time, now)
                     /\ result' = Reply("email_confirmation", "scheduled", email_id(now))
           ELSE /\ result' = Reply("email_confirmation", "cancelled", NoTime)
                /\ UNCHANGED pending_emails
      /\ bot_data' = Remove(bot_data, key)
      /\ UNCHANGED <<now, enabled, USER_CHAT_ID, pending_reminders, smtp_log,
                     bot_log, reminders_to_send, email_pc, calendarVars, envVars>>

ChatInit ==
    /\ StoreInit
    /\ is_authenticated \in BOOLEAN
    /\ sent_reminders = [ids |-> {}, others |-> 0]
    /\ events = <<>>
    /\ calendar_log = <<>>
    /\ calendar_queue = <<>>
    /\ last_calendar_run = NoTime
    /\ calendar_calls = <<>>

\* free-text messages only, over one clock advance
ChatNext ==
    \/ (now < StartTime + 30 * MaxChatAdvances /\ Advance)
    \/ \E user_message \in Messages, req \in Requests(now) :
           handle_message(user_message, req)

SpecChat == ChatInit /\ [][ChatNext]_vars

\* requests that reach the dispatch decision: a message classified as an
\* email or a reminder request, and the /email command with its confirmation
DispatchNext ==
    \/ Advance
    \/ \E req \in Requests(now) : execute_email_action(req)
    \/ \E req \in Requests(now) : execute_reminder_action(req)
    \/ \E has_args \in BOOLEAN, req \in Requests(now) : email_command(has_args, req)
    \/ \E action \in {"send", "cancel"}, key \in {0} \cup DOMAIN bot_data :
           handle_email_confirmation(action, key)

SpecDispatch == Init /\ [][DispatchNext]_vars

----------------------------------------------------------------------------
(* Claims about the classification of messages *)

\* the message matches the email rule: an email-action keyword and an address
EmailRule == [msg \in Messages |-> email_action[msg] # NoAction]

\* the message matches a calendar-query keyword
QueryRule == [msg \in Messages |-> ContainsAny(lower(msg), query_patterns)]

NoMutation == UNCHANGED <<storeVars, calendarVars, chatVars>>

\* C11: a message with an email address and an email-action keyword is
\* handled by the email path, whatever other keywords it contains.
C11_EmailRuleFirst ==
    [][ \A msg \in Messages, req \in Requests(now) :
          (EmailRule[msg] /\ handle_message(msg, req)) => result'.op = "email"
      ]_vars

\* C12: a message that does not match the email rule and matches a
\* calendar-query keyword is answered by the plain conversation and changes
\* nothing: no calendar request, no deferred item.
C12_QueryNeverMutates ==
    [][ \A msg \in Messages, req \in Requests(now) :
          (~EmailRule[msg] /\ QueryRule[msg] /\ handle_message(msg, req)) =>
              result'.op = "chat" /\ NoMutation
      ]_vars

\* the word w stands in the message, not inside a longer word
ContainsWord(msg, w) ==
    \E i \in 1..Len(msg) :
        MatchAt(msg, i, w) /\ ~IsWord(msg, i - 1) /\ ~IsWord(msg, i + Len(w))

\* the message contains a confirmation keyword
Confirms ==
    [msg \in Messages |-> \E w \in confirmation_words : ContainsWord(lower(msg), w)]

ClearAllInvoked ==
    /\ Len(calendar_calls') = Len(calendar_calls) + 1
    /\ calendar_calls'[Len(calendar_calls')].call = "clear_all_events"

\* C13: a message classified as clear-all without a confirmation keyword
\* gets a confirmation request and clear_all_events is not called; the call
\* is made only for a clear-all message that contains a confirmation keyword.
C13_ClearAllNeedsConfirmation ==
    [][ \A msg \in Messages, req \in Requests(now) :
          handle_message(msg, req) =>
            /\ (is_authenticated /\ calendar_action[msg].action = "clear_all"
                    /\ ~Confirms[msg]) =>
                  result' = Reply("calendar", "confirm_clear", NoTime) /\ NoMutation
            /\ ClearAllInvoked =>
                  calendar_action[msg].action = "clear_all" /\ Confirms[msg]
      ]_vars

\* C14: every message is handled by exactly one of the four paths, and
\* only that path acts: a calendar action touches neither store, a reminder
\* action touches neither the emails nor the calendar, an email action
\* touches neither the reminders nor the calendar, the conversation nothing.
C14_ExactlyOnePath ==
    [][ \A msg \in Messages, req \in Requests(now) :
          handle_message(msg, req) =>
            /\ result'.op = path_of[msg][is_authenticated]
            /\ result'.op \in {"calendar", "reminder", "email", "chat"}
            /\ result'.op = "calendar" => UNCHANGED <<storeVars, chatVars>>
            /\ result'.op = "reminder" =>
                  UNCHANGED <<pending_emails, smtp_log, calendarVars, chatVars>>
            /\ result'.op = "email" =>
                  UNCHANGED <<pending_reminders, bot_log, calendarVars, chatVars>>
            /\ result'.op = "chat" => NoMutation
      ]_vars

\* with the calendar authenticated, a message was handled as a reminder and
\* saved one: no email item and no calendar request came with it
C14_Witness ==
    /\ is_authenticated
    /\ result.op = "reminder"
    /\ result.outcome = "scheduled"
    /\ Len(pending_reminders) = 1
    /\ pending_emails = <<>>
    /\ calendar_calls = <<>>

\* C15: when the extractor returns no payload for a send-email or a
\* set-reminder request, the reply is "could not parse" and nothing else
\* happens: no mail, no notification, no write to either store.
C15_NoPayloadNoEffect ==
    [][ \A req \in Requests(now) :
          ~req.data =>
            /\ (enabled /\ execute_email_action(req)) =>
                  /\ result' = Reply("email", "could_not_parse", NoTime)
                  /\ NoMutation
            /\ execute_reminder_action(req) =>
                  /\ result' = Reply("reminder", "could_not_parse", NoTime)
                  /\ NoMutation
      ]_vars

\* a request without payload was answered while an item was waiting in a
\* store, and the other store was still empty
C15_Witness ==
    /\ result.outcome = "could_not_parse"
    /\ enabled
    /\ Len(pending_emails) + Len(pending_reminders) = 1

\* C16: handling the message "send an email" (an email keyword, no
\* address) ends with a failure reply, without any call to the conversation
\* model, the mail transport, the calendar or the notifier, and with nothing
\* persisted.
C16_MalformedEmailFails ==
    [][ \A req \in Requests(now) :
          handle_message("send an email", req) =>
            /\ result'.op # "chat"
            /\ result'.outcome \in {"could_not_parse", "error"}
            /\ NoMutation
      ]_vars

\* C17: when the extracted time string of a send-email or set-reminder
\* request is not recognised by the time parser (no timestamp comes back),
\* the user gets a failure reply, no email is sent, no notification is
\* issued and nothing is persisted.
Unrecognised(req) ==
    req.data /\ req.time_str = "text" /\ req.parses_to = NoTime

C17_UnrecognisedTimeFails ==
    [][ \A req \in Requests(now) :
          Unrecognised(req) =>
            /\ (enabled /\ execute_email_action(req)) =>
                  /\ result'.outcome \in {"could_not_parse", "error"}
                  /\ NoMutation
            /\ execute_reminder_action(req) =>
                  /\ result'.outcome \in {"could_not_parse", "error"}
                  /\ NoMutation
      ]_vars

\* C18: a request whose extracted time string is "now" is executed
\* immediately and creates no pending item, at any second of the minute:
\* for a free-text email or reminder request, and for the confirmation of
\* an /email preview whose time is "now".
IsNow(req) == req.data /\ req.time_str = "now"

C18_NowIsImmediate ==
    [][ /\ \A req \in Requests(now) :
              IsNow(req) =>
                /\ (enabled /\ execute_email_action(req)) =>
                      /\ Immediate(result')
                      /\ UNCHANGED <<pending_emails, pending_reminders>>
                /\ execute_reminder_action(req) =>
                      /\ Immediate(result')
                      /\ UNCHANGED <<pending_emails, pending_reminders>>
        /\ \A key \in DOMAIN bot_data :
              (/\ bot_data[key].send_time_str = "now"
               /\ handle_email_confirmation("send", key)) =>
                  /\ Immediate(result')
                  /\ UNCHANGED <<pending_emails, pending_reminders>>
      ]_vars

\* an email went out at once in the middle of a minute, and no item is
\* pending in either store
C18_Witness ==
    /\ result.op = "email"
    /\ result.outcome = "sent_now"
    /\ now % 60 = 30
    /\ pending_emails = <<>>
    /\ pending_reminders = <<>>

----------------------------------------------------------------------------
(* The purge of the two stores, applied to documents of every shape:        *)
(* EmailService.cleanup_old_emails and ReminderService.cleanup_old_reminders *)
(* as the scheduled tasks call them, with the default days_old.              *)

MaxPurgeDays == 1

PurgeStart == StartTime + (days_old + 1) * 86400

\* created more than the window ago, exactly the window ago, a day ago
CreatedTimes ==
    {StartTime, PurgeStart - days_old * 86400, PurgeStart - 86400}

Items(statuses, id(_)) ==
    {[id |-> id(c), scheduled_time |-> c + 60, created_time |-> c, status |-> st] :
        c \in CreatedTimes, st \in statuses}

Documents(statuses, id(_)) ==
    {<<>>} \cup {<<a>> : a \in Items(statuses, id)}
    \cup {<<p[1], p[2]>> :
             p \in {q \in Items(statuses, id) \X Items(statuses, id) :
                       q[1].id # q[2].id}}

PurgeInit ==
    /\ now = PurgeStart
    /\ enabled = TRUE
    /\ USER_CHAT_ID = TRUE
    /\ pending_emails
          \in Documents({"pending", "sent", "failed", "cancelled"}, email_id)
    /\ pending_reminders
          \in Documents({"pending", "sent", "cancelled"}, reminder_id)
    /\ smtp_log = <<>>
    /\ bot_log = <<>>
    /\ reminders_to_send = <<>>
    /\ email_pc = "idle"
    /\ result = NoResult
    /\ CalendarIdle
    /\ bot_data = <<>>
    /\ files = AllValid
    /\ calendar_fails = FALSE
    /\ extracted = NoPayload

\* the reply carries the count of the log line "Cleaned up n old ..."
run_cleanup_old_emails ==
    /\ pending_emails' = cleanup_old_emails(pending_emails, now)
    /\ result' = Reply("cleanup_old_emails", "cleaned",
                       Len(pending_emails) - Len(pending_emails'))
    /\ UNCHANGED <<now, enabled, USER_CHAT_ID, pending_reminders, smtp_log,
                   bot_log, reminders_to_send, email_pc, calendarVars, chatVars, envVars>>

run_cleanup_old_reminders ==
    /\ pending_reminders' = cleanup_old_reminders(pending_reminders, now)
    /\ result' = Reply("cleanup_old_reminders", "cleaned",
                       Len(pending_reminders) - Len(pending_reminders'))
    /\ UNCHANGED <<now, enabled, USER_CHAT_ID, pending_emails, smtp_log,
                   bot_log, reminders_to_send, email_pc, calendarVars, chatVars, envVars>>

AdvanceDay ==
    /\ now < PurgeStart + MaxPurgeDays * 86400
    /\ now' = now + 86400
    /\ result' = NoResult
    /\ UNCHANGED <<enabled, USER_CHAT_ID, storeVars, calendarVars, chatVars, envVars>>

PurgeNext == AdvanceDay \/ run_cleanup_old_emails \/ run_cleanup_old_reminders

SpecPurge == PurgeInit /\ [][PurgeNext]_vars

Terminal == {"sent", "failed", "cancelled"}

Records(d) == {d[i] : i \in DOMAIN d}

\* what a purge of document d into document e at time t may do
PurgedOnlyOldTerminal(d, e, t) ==
    /\ Records(e) \subseteq Records(d)
    /\ \A r \in Records(d) \ Records(e) :
          /\ r.status \in Terminal
          /\ r.created_time < t - days_old * 86400
    /\ \A r \in Records(d) : r.status = "pending" => r \in Records(e)
    /\ \A r \in Records(d) :
          (r.status \in Terminal /\ r.created_time >= t - days_old * 86400)
              => r \in Records(e)

\* C19: the purge removes an item only if its status is terminal (sent,
\* failed or cancelled) and it was created more than the retention window
\* ago; a pending item stays however old it is, a terminal item younger than
\* the window stays, and the purge touches nothing else.
C19_PurgeOnlyOldTerminal ==
    [][ /\ run_cleanup_old_emails =>
              /\ PurgedOnlyOldTerminal(pending_emails, pending_emails', now)
              /\ UNCHANGED pending_reminders
        /\ run_cleanup_old_reminders =>
              /\ PurgedOnlyOldTerminal(pending_reminders, pending_reminders', now)
              /\ UNCHANGED pending_emails
      ]_vars

\* a purge of the emails removed one item and left the other, a pending
\* item older than the window, in the store
C19_Witness ==
    /\ result.op = "cleanup_old_emails"
    /\ result.id = 1
    /\ Len(pending_emails) = 1
    /\ pending_emails[1].status = "pending"
    /\ Old(pending_emails[1], now)

\* C20: an identifier in the set of sent calendar reminders stays in it
\* across every step; the only removal is the clear of the whole set, and
\* the set is cleared only when it holds more than max_sent_reminders
\* entries (the entry marked by the same tick included).
Cleared == sent_reminders' = [ids |-> {}, others |-> 0]

----------------------------------------------------------------------------
(* Loading the backing documents: EmailService.load_pending_emails,          *)
(* ReminderService.load_pending_reminders, CalendarHandler.load_sent_reminders *)

LoadReply(op, loaded, size) ==
    Reply(op, IF loaded.raised THEN "raised" ELSE "loaded", size)

LoadInit ==
    /\ StoreInit
    /\ CalendarIdle

call_load_pending_emails ==
    LET loaded == load_pending_emails(files["pending_emails"], pending_emails) IN
    /\ result' = LoadReply("load_pending_emails", loaded, Len(loaded.value))
    /\ UNCHANGED <<now, enabled, USER_CHAT_ID, storeVars, calendarVars, chatVars, envVars>>

call_load_pending_reminders ==
    LET loaded == load_pending_reminders(files["pending_reminders"], pending_reminders) IN
    /\ result' = LoadReply("load_pending_reminders", loaded, Len(loaded.value))
    /\ UNCHANGED <<now, enabled, USER_CHAT_ID, storeVars, calendarVars, chatVars, envVars>>

\* CalendarHandler.__init__ calls it
call_load_sent_reminders ==
    LET loaded == load_sent_reminders(files["sent_reminders"], sent_reminders) IN
    /\ result' = LoadReply("load_sent_reminders", loaded,
                           IF loaded.raised THEN 0 ELSE SentSize(loaded.value))
    /\ UNCHANGED <<now, enabled, USER_CHAT_ID, storeVars, calendarVars, chatVars, envVars>>

\* a document is damaged, removed or restored from outside the program
file_changes(f, condition) ==
    /\ files' = [files EXCEPT ![f] = condition]
    /\ result' = NoResult
    /\ UNCHANGED <<now, enabled, USER_CHAT_ID, storeVars, calendarVars, chatVars,
                   calendar_fails, extracted>>

LoadNext ==
    \/ call_load_pending_emails
    \/ call_load_pending_reminders
    \/ call_load_sent_reminders
    \/ \E f \in FileNames, condition \in FileConditions : file_changes(f, condition)

SpecLoad == LoadInit /\ [][LoadNext]_vars

\* C21: when the backing document of a store (pending emails, pending
\* reminders, sent-reminder marks) is unreadable or corrupt, loading it
\* yields an empty collection and raises nothing.
C21_DamagedDocumentLoadsEmpty ==
    \A f \in FileNames :
        (result.op = "load_" \o f /\ files[f] \in {"corrupt", "unreadable"}) =>
            (result.outcome = "loaded" /\ result.id = 0)

----------------------------------------------------------------------------
(* The three executors of ai_handler.py while collaborators fail: a backing *)
(* document is damaged, the calendar service answers with an error, the     *)
(* mail transport refuses, the extractor returns nothing.                    *)

\* the actions detect_calendar_action can return
CalendarActions == {calendar_action[msg] : msg \in Messages} \ {NoAction}

calendar_service_changes ==
    /\ calendar_fails' = ~calendar_fails
    /\ result' = NoResult
    /\ UNCHANGED <<now, enabled, USER_CHAT_ID, storeVars, calendarVars, chatVars, files,
                   extracted>>

FaultsInit ==
    /\ StoreInit
    /\ CalendarIdle

FaultsNext ==
    \/ \E f \in FileNames \ {"sent_reminders"}, condition \in FileConditions :
           file_changes(f, condition)
    \/ calendar_service_changes
    \/ \E action_info \in CalendarActions, req \in Requests(now) :
           execute_calendar_action(action_info, req)
    \/ \E req \in Requests(now) : execute_email_action(req)
    \/ \E req \in Requests(now) : execute_reminder_action(req)

SpecFaults == FaultsInit /\ [][FaultsNext]_vars

\* the replies an executor hands to the message layer
UserVisible ==
    {"cleared", "confirm_clear", "deleted", "specify_pattern", "created",
     "not_configured", "could_not_parse", "scheduled", "sent_now", "send_failed",
     "error"}

\* C22: every dispatch of a calendar, email or reminder action returns one
\* user-visible result and lets no exception through to the message layer,
\* also when the extractor, the calendar, the mail transport or a backing
\* document fails.
C22_DispatchAlwaysReplies ==
    [][ /\ \A action_info \in CalendarActions, req \in Requests(now) :
              execute_calendar_action(action_info, req) =>
                  result'.op = "calendar" /\ result'.outcome \in UserVisible
        /\ \A req \in Requests(now) :
              /\ execute_email_action(req) =>
                    result'.op = "email" /\ result'.outcome \in UserVisible
              /\ execute_reminder_action(req) =>
                    result'.op = "reminder" /\ result'.outcome \in UserVisible
      ]_vars

\* an email was to be scheduled while its document could not be read: the
\* executor answered with an error text
C22_Witness ==
    /\ result = error_reply("email")
    /\ files["pending_emails"] = "unreadable"
    /\ now % 3600 < 59 * 60

----------------------------------------------------------------------------
(* The two polling ticks, applied to documents of every shape: items were   *)
(* inserted in the order of their creation, each with any scheduled time    *)
(* and any status.                                                          *)

MaxTicks == 1

TickStart == StartTime + 600

\* due a minute ago, due now, due at the next clock value
ScheduledTimes == {TickStart - 60, TickStart, TickStart + 30}

TickItems(statuses, id(_), c) ==
    {[id |-> id(c), scheduled_time |-> t, created_time |-> c, status |-> st] :
        t \in ScheduledTimes, st \in statuses}

\* the second item was created, and so inserted, after the first
TickDocuments(statuses, id(_)) ==
    {<<>>} \cup {<<a>> : a \in TickItems(statuses, id, StartTime)}
    \cup {<<p[1], p[2]>> :
             p \in TickItems(statuses, id, StartTime)
                     \X TickItems(statuses, id, StartTime + 30)}

TickInit ==
    /\ now = TickStart
    /\ enabled = TRUE
    /\ USER_CHAT_ID \in BOOLEAN
    /\ \/ /\ pending_emails
                \in TickDocuments({"pending", "sent", "failed", "cancelled"}, email_id)
          /\ pending_reminders = <<>>
       \/ /\ pending_emails = <<>>
          /\ pending_reminders
                \in TickDocuments({"pending", "sent", "cancelled"}, reminder_id)
    /\ smtp_log = <<>>
    /\ bot_log = <<>>
    /\ reminders_to_send = <<>>
    /\ email_pc = "idle"
    /\ result = NoResult
    /\ CalendarIdle
    /\ bot_data = <<>>
    /\ files = AllValid
    /\ calendar_fails = FALSE
    /\ extracted = NoPayload

\* the interval of the jobs passes
AdvanceTick ==
    /\ now < TickStart + 30 * MaxTicks
    /\ now' = now + 30
    /\ result' = NoResult
    /\ UNCHANGED <<enabled, USER_CHAT_ID, storeVars, calendarVars, chatVars, envVars>>

(* EmailService.get_pending_emails, ReminderService.get_pending_reminders    *)

\* datetime.isoformat() of a time of the store's timezone, as the characters
\* of "DDTHH:MM:SS" that differ between times (digits as numbers 0..9)
TwoDigits(n) == <<n \div 10, n % 10>>

isoformat(t) ==
    TwoDigits(t \div 86400) \o TwoDigits((t % 86400) \div 3600)
        \o TwoDigits((t % 3600) \div 60) \o TwoDigits(t % 60)

\* a <= b for two strings, character by character
RECURSIVE StrLeq(_, _)
StrLeq(a, b) ==
    IF a = <<>> THEN TRUE
    ELSE IF b = <<>> THEN FALSE
    ELSE IF Head(a) # Head(b) THEN Head(a) < Head(b)
    ELSE StrLeq(Tail(a), Tail(b))

\* a listing that forgets to sort
unsorted(list) == list

\* list.sort(key=lambda x: x['scheduled_time']): a stable sort on the stored
\* string
RECURSIVE sort_by_scheduled_time(_)
sort_by_scheduled_time(list) ==
    IF list = <<>> THEN <<>>
    ELSE LET x == list[Len(list)]
             sorted == sort_by_scheduled_time(SubSeq(list, 1, Len(list) - 1))
             before == Cardinality({i \in DOMAIN sorted :
                          StrLeq(isoformat(sorted[i].scheduled_time),
                                 isoformat(x.scheduled_time))})
         IN  SubSeq(sorted, 1, before) \o <<x>>
                 \o SubSeq(sorted, before + 1, Len(sorted))

get_pending_emails(d) ==
    sort_by_scheduled_time(SelectSeq(d, LAMBDA r : r.status = "pending"))

get_pending_reminders(d) ==
    sort_by_scheduled_time(SelectSeq(d, LAMBDA r : r.status = "pending"))

\* handlers/email_commands.py pending_emails_command
call_get_pending_emails ==
    /\ result' = Reply("get_pending_emails", "listed",
                       Len(get_pending_emails(pending_emails)))
    /\ UNCHANGED <<now, enabled, USER_CHAT_ID, storeVars, calendarVars, chatVars, envVars>>

call_get_pending_reminders ==
    /\ result' = Reply("get_pending_reminders", "listed",
                       Len(get_pending_reminders(pending_reminders)))
    /\ UNCHANGED <<now, enabled, USER_CHAT_ID, storeVars, calendarVars, chatVars, envVars>>

TickNext ==
    \/ AdvanceTick
    \/ call_get_pending_emails
    \/ call_get_pending_reminders
    \/ \E oks \in [DueIds(pending_emails, now) -> BOOLEAN], cleanup \in BOOLEAN :
           send_scheduled_emails(oks, cleanup)
    \/ \E cleanup \in BOOLEAN : send_scheduled_emails_notified(cleanup)
    \/ send_scheduled_reminders_no_chat
    \/ send_scheduled_reminders
    \/ \E ok \in BOOLEAN : send_message_returns(ok)

SpecTick == TickInit /\ [][TickNext]_vars

\* the items named by list, looked up in document d, are in ascending order
\* of scheduled_time
Ascending(d, list) ==
    \A i, j \in DOMAIN list :
        i < j => Get(d, list[i].id).scheduled_time <= Get(d, list[j].id).scheduled_time

\* C23: within one tick the due items are executed in ascending order of
\* scheduled_time, whatever the order in which they were inserted: the
\* send_email_now calls of an email tick, and the list of reminders a
\* reminder tick hands to the notifier.
C23_TickInScheduledOrder ==
    [][ /\ \A oks \in [DueIds(pending_emails, now) -> BOOLEAN], cleanup \in BOOLEAN :
              send_scheduled_emails(oks, cleanup) =>
                  Ascending(pending_emails,
                            SubSeq(smtp_log', Len(smtp_log) + 1, Len(smtp_log')))
        /\ send_scheduled_reminders => Ascending(pending_reminders, reminders_to_send')
      ]_vars

\* the pending items of document d whose scheduled_time has come at t
DuePending(d, t) == {r \in Records(d) : r.status = "pending" /\ r.scheduled_time <= t}

\* every item of the set has left Pending in document e and was handed to
\* the collaborator, as the log or the list of the tick shows
ExecutedAll(items, e, handed) ==
    \A r \in items :
        /\ Get(e, r.id).status # "pending"
        /\ \E k \in DOMAIN handed : handed[k].id = r.id

\* C24: a Pending item that is not cancelled is executed by the first tick
\* of its kind that starts at or after its scheduled_time, and leaves
\* Pending in that tick: so it fires within one tick interval of its due
\* time.
C24_FirstTickAfterDueExecutes ==
    [][ /\ ( \E oks \in [DueIds(pending_emails, now) -> BOOLEAN], cleanup \in BOOLEAN :
                send_scheduled_emails(oks, cleanup) ) =>
              ExecutedAll(DuePending(pending_emails, now), pending_emails', smtp_log')
        /\ (send_scheduled_reminders \/ send_scheduled_reminders_no_chat) =>
              ExecutedAll(DuePending(pending_reminders, now), pending_reminders',
                          bot_log' \o reminders_to_send')
      ]_vars

\* list is exactly the Pending items of document d, each once, in ascending
\* order of scheduled_time
ListsPending(list, d) ==
    /\ Records(list) = {r \in Records(d) : r.status = "pending"}
    /\ Len(list) = Cardinality(Records(list))
    /\ \A i, j \in DOMAIN list :
          i < j => list[i].scheduled_time <= list[j].scheduled_time

\* C25: the listing returns exactly the items whose status is Pending (no
\* sent, failed or cancelled item, no Pending item missing), ordered by
\* scheduled_time ascending.
C25_ListPendingSorted ==
    /\ result.op = "get_pending_emails" =>
          ListsPending(get_pending_emails(pending_emails), pending_emails)
    /\ result.op = "get_pending_reminders" =>
          ListsPending(get_pending_reminders(pending_reminders), pending_reminders)

\* two pending emails were listed, and the one inserted first is the one
\* scheduled later
C25_Witness ==
    /\ result = Reply("get_pending_emails", "listed", 2)
    /\ pending_emails[1].scheduled_time > pending_emails[2].scheduled_time

----------------------------------------------------------------------------
(* The extractors: EmailService.parse_email_request and                      *)
(* ReminderService.parse_reminder_request, applied to what the language     *)
(* model answered.                                                          *)

\* dict.get of a key the JSON object does not have
None == "None"

\* the answer is no text, or text that json.loads rejects
InvalidJson == [json |-> FALSE]

EmailAnswers ==
    {InvalidJson} \cup
    {[json |-> TRUE, recipient_email |-> r, subject |-> sb, body |-> b, send_time |-> t] :
        r \in {None, "", "bob", "a@b", "a@b.co", "x_y@mail.org"},
        sb \in {None, "", " ", "hi", "re: call"},
        b \in {None, "", " ", "see you", "ok"},
        t \in {None, "now"}}

ReminderAnswers ==
    {InvalidJson} \cup
    {[json |-> TRUE, reminder_text |-> x, remind_time |-> t] :
        x \in {None, "", " ", "call mom", "stretch"},
        t \in {None, "", "now", "14:30"}}

\* bool(value) of a string or None
truthy(value) == value # None /\ value # ""

\* re.match(r'^[a-zA-Z0-9._%+-]+@[a-zA-Z0-9.-]+\.[a-zA-Z]{2,}$', value):
\* $ matches at the end and before a newline that ends the string
matches_email_pattern(value) ==
    \E at, dot, z \in 1..Len(value) :
        /\ 1 < at /\ at + 1 < dot /\ dot + 2 <= z
        /\ \A i \in 1..(at - 1) : IsLocalChar(value, i)
        /\ MatchAt(value, at, "@")
        /\ \A i \in (at + 1)..(dot - 1) : IsDomainChar(value, i)
        /\ MatchAt(value, dot, ".")
        /\ \A i \in (dot + 1)..z : IsLetter(value, i)
        /\ (z = Len(value) \/ (z = Len(value) - 1 /\ MatchAt(value, Len(value), "\n")))

parse_email_request(answer) ==
    IF ~answer.json THEN NoPayload
    ELSE IF ~truthy(answer.recipient_email) \/ ~truthy(answer.subject) THEN NoPayload
    ELSE IF ~matches_email_pattern(answer.recipient_email) THEN NoPayload
    ELSE [kind |-> "email", data |-> answer]

parse_reminder_request(answer) ==
    IF ~answer.json THEN NoPayload
    ELSE IF ~truthy(answer.reminder_text) \/ ~truthy(answer.remind_time) THEN NoPayload
    ELSE [kind |-> "reminder", data |-> answer]

call_parse_email_request(answer) ==
    /\ extracted' = parse_email_request(answer)
    /\ result' = Reply("parse_email_request",
                       IF extracted' = NoPayload THEN "none" ELSE "payload", NoTime)
    /\ UNCHANGED <<now, enabled, USER_CHAT_ID, storeVars, calendarVars, chatVars,
                   files, calendar_fails>>

call_parse_reminder_request(answer) ==
    /\ extracted' = parse_reminder_request(answer)
    /\ result' = Reply("parse_reminder_request",
                       IF extracted' = NoPayload THEN "none" ELSE "payload", NoTime)
    /\ UNCHANGED <<now, enabled, USER_CHAT_ID, storeVars, calendarVars, chatVars,
                   files, calendar_fails>>

ExtractInit == StoreInit /\ CalendarIdle

ExtractNext ==
    \/ \E answer \in EmailAnswers : call_parse_email_request(answer)
    \/ \E answer \in ReminderAnswers : call_parse_reminder_request(answer)

SpecExtract == ExtractInit /\ [][ExtractNext]_vars

\* value.strip() is not empty
NonEmpty(value) ==
    value # None /\ \E i \in 1..Len(value) : ~MatchAt(value, i, " ")

\* C26: every payload an extractor returns is valid: an email payload has a
\* recipient of email-address syntax and a non-empty recipient, subject and
\* body; a reminder payload has a non-empty text.  An answer in which one of
\* these is missing or empty gives no payload.
C26_PayloadValid ==
    /\ extracted.kind = "email" =>
          /\ matches_email_pattern(extracted.data.recipient_email)
          /\ NonEmpty(extracted.data.recipient_email)
          /\ NonEmpty(extracted.data.subject)
          /\ NonEmpty(extracted.data.body)
    /\ extracted.kind = "reminder" => NonEmpty(extracted.data.reminder_text)

\* item id of document d can still be picked by a tick
Eligible(d, id) == \E i \in DOMAIN d : d[i].id = id /\ d[i].status = "pending"

\* C27: a scheduled item whose execution attempt failed stays eligible for
\* execution, so that later ticks retry it until it has fired.
C27_FailedAttemptStaysEligible ==
    /\ \A k \in DOMAIN smtp_log :
          (/\ ~smtp_log[k].ok
           /\ ~\E n \in DOMAIN smtp_log : smtp_log[n].id = smtp_log[k].id /\ smtp_log[n].ok)
              => Eligible(pending_emails, smtp_log[k].id)
    /\ \A k \in DOMAIN bot_log :
          (/\ bot_log[k].outcome = "failed"
           /\ ~\E n \in DOMAIN bot_log :
                  bot_log[n].id = bot_log[k].id /\ bot_log[n].outcome = "ok")
              => Eligible(pending_reminders, bot_log[k].id)

\* C28: classification is a function of the message text alone: the same
\* text is dispatched to the same path in every state, whether the calendar
\* is authenticated or not.
C28_ClassificationIgnoresState ==
    [][ \A msg \in Messages, req \in Requests(now) :
          handle_message(msg, req) =>
              \A authenticated \in BOOLEAN : result'.op = path_of[msg][authenticated]
      ]_vars

\* the extracted time string is a text the parser resolves
ResolvesToTime(req) == req.data /\ req.time_str = "text" /\ req.parses_to # NoTime

Immediately == [kind |-> "immediate"]
ScheduledAt(t) == [kind |-> "scheduled", scheduled_time |-> t]

\* what execute_email_action, execute_reminder_action and the /email
\* command with its confirmation decide for a resolved time at reference
\* time t
dispatch_decision(time, t) ==
    IF time = ValueError THEN [kind |-> "error"]
    ELSE IF should_schedule(time, t) THEN ScheduledAt(time)
    ELSE Immediately

email_decision(req, t) == dispatch_decision(email_send_time(req, t), t)

reminder_decision(req, t) == dispatch_decision(reminder_remind_time(req, t), t)

confirmation_decision(req, t) ==
    LET session == Session(req.time_str, parse_send_time(req, t)) IN
    IF send_immediately(session, t) THEN Immediately
    ELSE ScheduledAt(session.send_time)

\* C29: the same-minute correction and the immediate-versus-scheduled
\* decision are the same wherever an item is scheduled: for every resolved
\* time and reference time, the free-text email path, the /email
\* confirmation path and the reminder path decide alike and schedule for
\* the same time.
C29_SameDecisionOnEveryPath ==
    \A req \in Requests(now) :
        ResolvesToTime(req) =>
            /\ email_decision(req, now) = reminder_decision(req, now)
            /\ email_decision(req, now) = confirmation_decision(req, now)

----------------------------------------------------------------------------
(* One free-text email dispatch with its clock reads: parse_email_request   *)
(* reads the clock for the prompt (email_service.py:80) and blocks on the   *)
(* language model; execute_email_action reads the clock again for the       *)
(* decision (ai_handler.py:516) once the answer is there.                    *)

\* up to the return of parse_email_request: the answer is relative to the
\* time written into the prompt
begin_email_dispatch(req) ==
    /\ enabled
    /\ result.op # "parse_email_request"
    /\ extracted' = [kind |-> "request", req |-> req, current_time |-> now]
    /\ result' = Reply("parse_email_request", "called", NoTime)
    /\ UNCHANGED <<now, enabled, USER_CHAT_ID, storeVars, calendarVars, chatVars,
                   files, calendar_fails>>

\* generate_content has not returned yet
oracle_takes_time ==
    /\ result.op = "parse_email_request"
    /\ now + 30 <= Horizon
    /\ now' = now + 30
    /\ UNCHANGED <<enabled, USER_CHAT_ID, storeVars, calendarVars, chatVars, envVars,
                   result>>

\* the rest of execute_email_action, from the answer on
finish_email_dispatch ==
    /\ result.op = "parse_email_request"
    /\ extracted.kind = "request"
    /\ execute_email_action(extracted.req)

ClockNext ==
    \/ Advance
    \/ \E req \in Requests(now) : begin_email_dispatch(req)
    \/ oracle_takes_time
    \/ finish_email_dispatch

SpecClock == Init /\ [][ClockNext]_vars

\* C30: one dispatch uses one reference time: the time given to the
\* extractor as current time and the time the resolved time is compared
\* with are the same instant, the clock is not read again in between.
C30_SingleReferenceTime ==
    [][ (finish_email_dispatch /\ ResolvesToTime(extracted.req)) =>
            extracted.current_time = now ]_vars

----------------------------------------------------------------------------
(* Deletion requests without a pattern *)

\* the message is classified as a deletion whose extracted pattern is ''
EmptyDeletion(user_message) ==
    /\ calendar_action[user_message].action = "delete_pattern"
    /\ calendar_action[user_message].pattern = ""

\* C31: a deletion request whose extracted pattern is the empty string never
\* reaches delete_events_by_title: the calendar and the requests sent to it
\* are unchanged, and the dispatcher answers by asking what to delete.
C31_EmptyPatternNeverDeletes ==
    [][ \A user_message \in Messages, req \in Requests(now) :
          (handle_message(user_message, req) /\ EmptyDeletion(user_message)) =>
             /\ calendar_calls' = calendar_calls
             /\ events' = events
             /\ (is_authenticated =>
                    result' = Reply("calendar", "specify_pattern", NoTime)) ]_vars

\* a message with an empty pattern was dispatched and answered
C31_Witness ==
    /\ result = Reply("calendar", "specify_pattern", NoTime)
    /\ calendar_calls = <<>>
    /\ \E user_message \in Messages :
          /\ EmptyDeletion(user_message)
          /\ Contains(user_message, "\"\"")

----------------------------------------------------------------------------
(* CalendarHandler.parse_meeting_request, _fallback_parse, _add_hour and    *)
(* create_calendar_event.  A time of day is the string "HH:MM" the code     *)
(* builds; a date is the number of the day (strftime('%Y-%m-%d') of it).    *)

\* int(c) of one decimal digit
DigitValue(c) == (CHOOSE k \in 1..Len(Digits) : Ch(Digits, k) = c) - 1

\* int(s) of a non-empty string of decimal digits
RECURSIVE int(_)
int(s) ==
    IF Len(s) = 1 THEN DigitValue(s)
    ELSE 10 * int(SubSeq(s, 1, Len(s) - 1)) + DigitValue(Ch(s, Len(s)))

\* str(n) of a natural number
RECURSIVE str(_)
str(n) ==
    IF n < 10 THEN Ch(Digits, n + 1) ELSE str(n \div 10) \o Ch(Digits, (n % 10) + 1)

\* f"{n:02d}"
format_02d(n) == IF n < 10 THEN "0" \o str(n) ELSE str(n)

\* f"{hour:02d}:{minute:02d}"
format_time(hour, minute) == format_02d(hour) \o ":" \o format_02d(minute)

\* time_str.split(':')
split_colon(time_str) ==
    LET colons == {i \in 1..Len(time_str) : MatchAt(time_str, i, ":")} IN
    IF Cardinality(colons) # 1 THEN <<>>
    ELSE LET c == CHOOSE i \in colons : TRUE
         IN  <<SubSeq(time_str, 1, c - 1), SubSeq(time_str, c + 1, Len(time_str))>>

AllDigits(s) == Len(s) > 0 /\ \A i \in 1..Len(s) : IsDigit(s, i)

\* CalendarHandler._add_hour
add_hour(time_str) ==
    LET parts == split_colon(time_str) IN
    IF Len(parts) # 2 \/ ~AllDigits(parts[1]) \/ ~AllDigits(parts[2]) THEN "15:00"
    ELSE format_time((int(parts[1]) + 1) % 24, int(parts[2]))

\* re.search(r'(\d{1,2}):?(\d{0,2})\s*(am|pm|AM|PM)?', user_message): the
\* leftmost digit starts the match and every later part is optional, so the
\* greedy choice at each part is the match (\s is a space in these messages)
NoMatch == [matched |-> FALSE]

RECURSIVE SkipSpaces(_, _)
SkipSpaces(msg, i) == IF MatchAt(msg, i, " ") THEN SkipSpaces(msg, i + 1) ELSE i

\* the position after (\d{1,2}) that starts at i, after :? at a, and after
\* (\d{0,2}) at b
HourEnd(msg, i) == IF IsDigit(msg, i + 1) THEN i + 2 ELSE i + 1
ColonEnd(msg, a) == IF MatchAt(msg, a, ":") THEN a + 1 ELSE a
MinuteEnd(msg, b) ==
    IF ~IsDigit(msg, b) THEN b ELSE IF IsDigit(msg, b + 1) THEN b + 2 ELSE b + 1

\* the groups of the match whose parts start at i, b and p
Groups(msg, i, a, b, c, p) ==
    [matched |-> TRUE,
     group1 |-> SubSeq(msg, i, a - 1),
     group2 |-> SubSeq(msg, b, c - 1),
     group3 |-> IF \E w \in {"am", "pm", "AM", "PM"} : MatchAt(msg, p, w)
                THEN SubSeq(msg, p, p + 1) ELSE None]

MatchFromMinute(msg, i, a, b) ==
    Groups(msg, i, a, b, MinuteEnd(msg, b), SkipSpaces(msg, MinuteEnd(msg, b)))

MatchFrom(msg, i) ==
    MatchFromMinute(msg, i, HourEnd(msg, i), ColonEnd(msg, HourEnd(msg, i)))

FirstDigit(msg) ==
    CHOOSE d \in 1..Len(msg) :
        IsDigit(msg, d) /\ \A e \in 1..(d - 1) : ~IsDigit(msg, e)

time_match(user_message) ==
    IF \A i \in 1..Len(user_message) : ~IsDigit(user_message, i) THEN NoMatch
    ELSE MatchFrom(user_message, FirstDigit(user_message))

\* _fallback_parse, lines 280-285: the 12-hour period applied to the hour
start_time_of(hour, minute, period) ==
    IF period = "pm" /\ hour # 12 THEN format_time(hour + 12, minute)
    ELSE IF period = "am" /\ hour = 12 THEN format_time(0, minute)
    ELSE format_time(hour, minute)

\* _fallback_parse, lines 271-285, on the match m of the time pattern
start_time_from(m) ==
    IF ~m.matched THEN "14:00"
    ELSE start_time_of(int(m.group1),
                       IF m.group2 # "" THEN int(m.group2) ELSE 0,
                       IF m.group3 = None THEN None ELSE lower(m.group3))

fallback_start_time(user_message) == start_time_from(time_match(user_message))

\* inbound meeting requests of the scenarios
MeetingMessages ==
    {"schedule a meeting", "meeting at 11pm", "meeting today at 3pm",
     "call bob tomorrow 9:30am", "meeting at 12am", "meeting at 12pm",
     "presentation today 23:59", "meeting at 1430", "plan meeting at 2 PM",
     "review sprint 42 at 5pm", "book a call 0:05"}

\* _fallback_parse, lines 295-301: the title
fallback_title(user_message) ==
    IF Contains(lower(user_message), "meeting") THEN "Meeting"
    ELSE IF Contains(lower(user_message), "call") THEN "Call"
    ELSE IF Contains(lower(user_message), "presentation") THEN "Presentation"
    ELSE "Meeting"

\* what the fallback reads in every message, computed once
read_from ==
    [user_message \in MeetingMessages |->
        [start_time |-> fallback_start_time(user_message),
         title |-> fallback_title(user_message),
         today |-> Contains(lower(user_message), "today"),
         description |-> "Created from: " \o user_message]]

Day(t) == t \div 86400

\* CalendarHandler._fallback_parse at time t
fallback_parse(user_message, t) ==
    LET read == read_from[user_message] IN
    [title |-> read.title,
     date |-> IF read.today THEN Day(t) ELSE Day(t) + 1,
     start_time |-> read.start_time,
     end_time |-> add_hour(read.start_time),
     duration_minutes |-> 60,
     description |-> read.description]

\* what generate_content gives parse_meeting_request: an exception, a
\* response whose text is empty, a text json.loads rejects, or a JSON object
MeetingAnswers ==
    {[kind |-> "raises"], [kind |-> "empty"], [kind |-> "malformed"]}
    \cup {[kind |-> "json",
           parsed_data |-> [title |-> "Standup", date |-> d, start_time |-> st,
                            end_time |-> et, duration_minutes |-> 60,
                            description |-> ""]] :
             d \in {0, 1}, st \in {"09:00"}, et \in {"09:30", "10:00"}}

Meeting(details) == [kind |-> "meeting", details |-> details]

\* CalendarHandler.parse_meeting_request at time t; NoPayload is None
parse_meeting_request(gemini_model, answer, user_message, t) ==
    \* "if response.text:" is false: the function ends without a return
    IF gemini_model /\ answer.kind = "empty" THEN NoPayload
    \* json.loads accepted the text
    ELSE IF gemini_model /\ answer.kind = "json" THEN Meeting(answer.parsed_data)
    \* no model (line 195), or an exception inside the try (line 248)
    ELSE Meeting(fallback_parse(user_message, t))

\* create_calendar_event, lines 342-343: the two dateTime values of the event
start_datetime(meeting_details) ==
    [date |-> meeting_details.date, time |-> meeting_details.start_time \o ":00"]
end_datetime(meeting_details) ==
    [date |-> meeting_details.date, time |-> meeting_details.end_time \o ":00"]

\* "HH:MM:SS" names a time of day
ValidTime(time) ==
    /\ Len(time) = 8
    /\ AllDigits(SubSeq(time, 1, 2)) /\ AllDigits(SubSeq(time, 4, 5))
    /\ int(SubSeq(time, 1, 2)) <= 23 /\ int(SubSeq(time, 4, 5)) <= 59

\* the minute a valid dateTime value names, counted from day 0
Minutes(datetime) ==
    datetime.date * 1440 + int(SubSeq(datetime.time, 1, 2)) * 60
        + int(SubSeq(datetime.time, 4, 5))

call_parse_meeting_request(gemini_model, answer, user_message) ==
    /\ extracted' = parse_meeting_request(gemini_model, answer, user_message, now)
    /\ result' = Reply("parse_meeting_request",
                       IF extracted' = NoPayload THEN "none" ELSE "payload", NoTime)
    /\ UNCHANGED <<now, enabled, USER_CHAT_ID, storeVars, calendarVars, chatVars,
                   files, calendar_fails>>

\* CalendarHandler.create_calendar_event on the details last extracted; the
\* calendar service rejects a dateTime that names no time of day
create_calendar_event ==
    /\ extracted.kind = "meeting"
    /\ LET event == [start |-> start_datetime(extracted.details),
                     end |-> end_datetime(extracted.details)]
       IN  IF ~is_authenticated
           THEN /\ result' = Reply("create_calendar_event", "not_authenticated", NoTime)
                /\ UNCHANGED calendar_calls
           ELSE IF ~ValidTime(event.start.time) \/ ~ValidTime(event.end.time)
                      \/ Minutes(event.end) < Minutes(event.start)
           THEN /\ result' = Reply("create_calendar_event", "error", NoTime)
                /\ UNCHANGED calendar_calls
           ELSE /\ Len(calendar_calls) < MaxCalls
                /\ calendar_calls' =
                      Append(calendar_calls, CalendarCall("events.insert", event))
                /\ result' = Reply("create_calendar_event", "created", NoTime)
    /\ UNCHANGED <<now, enabled, USER_CHAT_ID, storeVars, chatVars, envVars,
                   is_authenticated, sent_reminders, events, calendar_log,
                   calendar_queue, last_calendar_run>>

MeetingNext ==
    \/ (now < StartTime + 30 * MaxChatAdvances /\ Advance)
    \/ \E gemini_model \in BOOLEAN, answer \in MeetingAnswers,
          user_message \in MeetingMessages :
           call_parse_meeting_request(gemini_model, answer, user_message)
    \/ create_calendar_event

SpecMeeting == ChatInit /\ [][MeetingNext]_vars

\* C32: when the answer of the oracle to a CreateEvent extraction is empty
\* or cannot be parsed, parse_meeting_request returns the payload of the
\* regex fallback for the same message; it never returns no payload.
C32_OracleFailureFallsBack ==
    [][ \A answer \in MeetingAnswers, user_message \in MeetingMessages :
          (call_parse_meeting_request(TRUE, answer, user_message)
              /\ answer.kind \in {"empty", "malformed"}) =>
             extracted' = Meeting(fallback_parse(user_message, now)) ]_vars

\* the details were built by _fallback_parse
FromFallback(details) == MatchAt(details.description, 1, "Created from: ")

\* C33: a meeting built by the regex fallback whose start is a time of day
\* from 00:00 to 23:59 ends exactly 60 minutes after it starts, counted on
\* the date of the event: the end is never earlier than the start.
C33_FallbackEndsAnHourLater ==
    (/\ extracted.kind = "meeting"
     /\ FromFallback(extracted.details)
     /\ ValidTime(start_datetime(extracted.details).time)) =>
        /\ ValidTime(end_datetime(extracted.details).time)
        /\ Minutes(end_datetime(extracted.details))
              = Minutes(start_datetime(extracted.details)) + 60

----------------------------------------------------------------------------
(* The life of an item *)

\* every status change of an item of document d on the way to document e
\* leaves Pending for a terminal status
OnlyLeavesPending(d, e) ==
    \A i \in DOMAIN d : \A j \in DOMAIN e :
        (e[j].id = d[i].id /\ e[j].status # d[i].status) =>
            d[i].status = "pending" /\ e[j].status \in Terminal

\* C34: terminal statuses are absorbing.  Under inserts, ticks, cancels and
\* purges an item that is sent, failed or cancelled never changes status
\* again (a purge may remove it), and the only status changes are pending to
\* sent, pending to failed and pending to cancelled.
C34_TerminalAbsorbing ==
    [][ /\ OnlyLeavesPending(pending_emails, pending_emails')
        /\ OnlyLeavesPending(pending_reminders, pending_reminders') ]_vars

\* the cancelled items of document d get no new entry on the way from log
\* to lognext
CancelledNotHanded(d, log, lognext) ==
    \A i \in DOMAIN d :
        d[i].status = "cancelled" => Calls(lognext, d[i].id) = Calls(log, d[i].id)

\* C35: once cancel(id) has set an item to cancelled, no later step of a
\* scheduler tick hands it to the mail transport or to the notification
\* channel, or puts it on the list of a reminder tick, also when its
\* scheduled_time has passed.
C35_CancelledNeverSent ==
    [][ /\ CancelledNotHanded(pending_emails, smtp_log, smtp_log')
        /\ CancelledNotHanded(pending_reminders, bot_log, bot_log')
        /\ \A i \in DOMAIN pending_reminders :
              pending_reminders[i].status = "cancelled" =>
                  \A k \in DOMAIN reminders_to_send' :
                      reminders_to_send'[k].id # pending_reminders[i].id
      ]_vars

\* a tick has just run over a cancelled item whose time has passed, and
\* handed nothing over for it
C35_Witness ==
    /\ result.op \in {"send_scheduled_emails", "send_scheduled_reminders"}
    /\ result.outcome = "checked"
    /\ \/ \E i \in DOMAIN pending_emails :
              /\ result.op = "send_scheduled_emails"
              /\ pending_emails[i].status = "cancelled"
              /\ pending_emails[i].scheduled_time <= now
              /\ pending_emails[i].id \notin LoggedIds(smtp_log)
       \/ \E i \in DOMAIN pending_reminders :
              /\ result.op = "send_scheduled_reminders"
              /\ pending_reminders[i].status = "cancelled"
              /\ pending_reminders[i].scheduled_time <= now
              /\ pending_reminders[i].id \notin LoggedIds(bot_log)

----------------------------------------------------------------------------
(* The message path against the email tick.  check_and_send_scheduled_emails *)
(* does not yield between its load and its write (send_email_now blocks);    *)
(* the job yields in the notifications it awaits afterwards, and its last    *)
(* write is the one of cleanup_old_emails, which loads the document again.   *)
(* The documents hold items of every status and age, so that the cleanup     *)
(* has something to remove.                                                  *)

UpdateInit ==
    /\ now = PurgeStart
    /\ enabled = TRUE
    /\ USER_CHAT_ID = TRUE
    /\ pending_emails
          \in {d \in Documents({"pending", "sent", "cancelled"}, email_id) : Len(d) <= 1}
    /\ pending_reminders = <<>>
    /\ smtp_log = <<>>
    /\ bot_log = <<>>
    /\ reminders_to_send = <<>>
    /\ email_pc = "idle"
    /\ result = NoResult
    /\ CalendarIdle
    /\ bot_data = <<>>
    /\ files = AllValid
    /\ calendar_fails = FALSE
    /\ extracted = NoPayload

\* half a minute passes
AdvanceUpdate ==
    /\ now < PurgeStart + 30 * MaxChatAdvances
    /\ now' = now + 30
    /\ result' = NoResult
    /\ UNCHANGED <<enabled, USER_CHAT_ID, storeVars, calendarVars, chatVars, envVars>>

UpdateNext ==
    \/ AdvanceUpdate
    \/ \E req \in Requests(now) : execute_email_action(req)
    \/ \E id \in Keys(pending_emails) : cancel_email_command(id)
    \/ \E oks \in [DueIds(pending_emails, now) -> BOOLEAN], cleanup \in BOOLEAN :
           send_scheduled_emails(oks, cleanup)
    \/ \E cleanup \in BOOLEAN : send_scheduled_emails_notified(cleanup)

SpecUpdate == UpdateInit /\ [][UpdateNext]_vars

\* every item of document d is in document e, unchanged unless it was
\* pending and is now sent or failed; an item that is missing was terminal,
\* or due, and older than the retention window
NoLostUpdate(d, e, t) ==
    \A i \in DOMAIN d :
        IF Has(e, d[i].id)
        THEN \/ Get(e, d[i].id) = d[i]
             \/ /\ Due(d[i], t)
                /\ \E st \in {"sent", "failed"} :
                      Get(e, d[i].id) = [d[i] EXCEPT !.status = st]
        ELSE Old(d[i], t) /\ (d[i].status \in Terminal \/ Due(d[i], t))

\* C36: no lost update.  Whatever the message path has inserted into or
\* cancelled in the pending-emails document before a step of the email tick,
\* also while the tick was waiting between its first load and its last
\* write, is in the document the step leaves: an inserted item is still
\* there and a cancelled item is still cancelled.
C36_NoLostUpdate ==
    [][ result'.op = "send_scheduled_emails" =>
            NoLostUpdate(pending_emails, pending_emails', now) ]_vars

\* the tick has ended, and the document holds an item that was inserted
\* after the tick had sent its emails, while it awaited the notifications
C36_Witness ==
    /\ result = Reply("send_scheduled_emails", "notified", NoTime)
    /\ smtp_log # <<>>
    /\ \E i \in DOMAIN pending_emails :
          /\ pending_emails[i].status = "pending"
          /\ pending_emails[i].created_time > smtp_log[Len(smtp_log)].tick

----------------------------------------------------------------------------
(* The gates of the two polling jobs: the chat id set by /start and cleared  *)
(* by /stop, and the availability of the mail service, which the process     *)
(* reads from its configuration when it starts.                              *)

GateInit ==
    /\ now = TickStart
    /\ enabled \in BOOLEAN
    /\ USER_CHAT_ID = FALSE
    /\ \/ /\ pending_emails \in TickDocuments({"pending", "sent"}, email_id)
          /\ pending_reminders = <<>>
       \/ /\ pending_emails = <<>>
          /\ pending_reminders \in TickDocuments({"pending", "sent"}, reminder_id)
    /\ smtp_log = <<>>
    /\ bot_log = <<>>
    /\ reminders_to_send = <<>>
    /\ email_pc = "idle"
    /\ result = NoResult
    /\ CalendarIdle
    /\ bot_data = <<>>
    /\ files = AllValid
    /\ calendar_fails = FALSE
    /\ extracted = NoPayload

\* the process is started again with the mail service configured or not:
\* EmailService.__init__ reads the configuration, USER_CHAT_ID is None again
restart(configured) ==
    /\ email_pc = "idle"
    /\ reminders_to_send = <<>>
    /\ enabled' = configured
    /\ USER_CHAT_ID' = FALSE
    /\ result' = NoResult
    /\ UNCHANGED <<now, storeVars, calendarVars, chatVars, envVars>>

GateNext ==
    \/ AdvanceTick
    \/ start
    \/ stop_messages
    \/ \E configured \in BOOLEAN : restart(configured)
    \/ \E oks \in [DueIds(pending_emails, now) -> BOOLEAN], cleanup \in BOOLEAN :
           send_scheduled_emails(oks, cleanup)
    \/ send_scheduled_emails_unavailable
    \/ \E cleanup \in BOOLEAN : send_scheduled_emails_notified(cleanup)
    \/ send_scheduled_reminders_no_chat
    \/ send_scheduled_reminders
    \/ \E ok \in BOOLEAN : send_message_returns(ok)

SpecGate == GateInit /\ [][GateNext]_vars

\* the job found its gate closed
GatedOff(reply) ==
    \/ reply.op = "send_scheduled_reminders" /\ reply.outcome = "no_chat_id"
    \/ reply.op = "send_scheduled_emails" /\ reply.outcome = "not_configured"

\* C37: a tick whose gate is closed (a reminder tick while no chat id is
\* known, an email tick while the mail service is unavailable) changes no
\* item and calls no collaborator; the due items stay pending, and a tick
\* that runs with its gate open hands every due pending item over.
C37_GatedTickChangesNothing ==
    [][ /\ GatedOff(result') =>
              UNCHANGED <<pending_emails, pending_reminders, smtp_log, bot_log,
                          reminders_to_send, email_pc, calendar_calls>>
        /\ (result'.op = "send_scheduled_reminders" /\ result'.outcome = "checked") =>
              ExecutedAll(DuePending(pending_reminders, now), pending_reminders',
                          reminders_to_send')
        /\ (result'.op = "send_scheduled_emails" /\ result'.outcome = "checked") =>
              \A r \in DuePending(pending_emails, now) :
                  \E k \in DOMAIN smtp_log' :
                      smtp_log'[k].id = r.id /\ smtp_log'[k].tick = now
      ]_vars

\* a reminder tick has just found no chat id, with a reminder due and
\* still pending
C37_Witness ==
    /\ result = Reply("send_scheduled_reminders", "no_chat_id", NoTime)
    /\ ~USER_CHAT_ID
    /\ DuePending(pending_reminders, now) # {}
    /\ bot_log = <<>>

----------------------------------------------------------------------------
(* What a tick leaves alone *)

\* the pending items of document d whose scheduled_time is later than t
NotDue(d, t) == {r \in Records(d) : r.status = "pending" /\ r.scheduled_time > t}

\* the entries that lognext has and log has not
NewEntries(log, lognext) == {lognext[k] : k \in DOMAIN lognext \ DOMAIN log}

IdsOf(entries) == {entry.id : entry \in entries}

\* C38: a scheduler tick leaves every item that is not due untouched: the
\* item stays pending with all its fields and nothing is handed over for
\* it.  What a tick hands to the mail transport, puts on the list of the
\* reminder tick or sends from that list is pending and due at the time of
\* the tick.
C38_TickLeavesNotDueUntouched ==
    [][ result'.op \in {"send_scheduled_emails", "send_scheduled_reminders"} =>
          /\ NotDue(pending_emails, now) \subseteq Records(pending_emails')
          /\ NotDue(pending_reminders, now) \subseteq Records(pending_reminders')
          /\ IdsOf(NewEntries(smtp_log, smtp_log'))
                \subseteq IdsOf(DuePending(pending_emails, now))
          /\ (result'.op = "send_scheduled_reminders" /\ result'.outcome = "checked") =>
                IdsOf(Records(reminders_to_send') \cup NewEntries(bot_log, bot_log'))
                    \subseteq IdsOf(DuePending(pending_reminders, now))
          /\ result'.outcome = "send_returned" =>
                /\ IdsOf(NewEntries(bot_log, bot_log'))
                      \subseteq IdsOf(Records(reminders_to_send))
                /\ \A entry \in Records(reminders_to_send) :
                      \A r \in Records(pending_reminders) :
                          r.id = entry.id => r.scheduled_time <= entry.tick
      ]_vars

\* a tick has just executed one item of a document and left the other one,
\* which is not due, pending
C38_Witness ==
    /\ result.outcome = "checked"
    /\ \/ /\ result.op = "send_scheduled_emails"
          /\ smtp_log # <<>>
          /\ NotDue(pending_emails, now) # {}
       \/ /\ result.op = "send_scheduled_reminders"
          /\ bot_log # <<>>
          /\ NotDue(pending_reminders, now) # {}

----------------------------------------------------------------------------
(* Failed calendar notifications: the per-event try of                      *)
(* send_calendar_reminders (scheduled_tasks.py:93-113).                     *)

\* the event of the calendar a reminder id belongs to
EventOf(rid) == CHOOSE i \in DOMAIN events : events[i].id = rid.event

\* the reminder is one get_events_needing_reminders would return again at
\* the time of its tick, given the marks in sent
StillNeeded(entry, sent) ==
    /\ \E i \in DOMAIN events : events[i].id = entry.reminder_id.event
    /\ reminder_needed(events[EventOf(entry.reminder_id)], entry.tick, sent)
           = entry.reminder_id.type

\* the outcome the job logged for the message that returned in this step
Returned(log, lognext) == lognext[Len(log)].outcome

\* C39: in a calendar-reminder tick an identifier enters the sent-reminder
\* set only in the step in which its own notification returned
\* successfully; when the notification of an event fails, its identifier is
\* not recorded, the job goes on with the next event of the tick, and the
\* reminder is still one the selection returns (it stays eligible).
C39_MarkOnlyAfterSuccessfulSend ==
    [][ /\ \A rid \in sent_reminders'.ids \ sent_reminders.ids :
              /\ calendar_queue # <<>>
              /\ rid = Head(calendar_queue).reminder_id
              /\ Returned(calendar_log, calendar_log') = "ok"
        /\ ( /\ calendar_queue # <<>>
             /\ calendar_queue' = Tail(calendar_queue)
             /\ Returned(calendar_log, calendar_log') = "failed" )
           => /\ Head(calendar_queue).reminder_id \notin sent_reminders'.ids
              /\ StillNeeded(Head(calendar_queue), sent_reminders')
              /\ Tail(calendar_queue) # <<>>
                    => calendar_log'[Len(calendar_log')] =
                          CalendarInFlight(Head(Tail(calendar_queue)))
      ]_vars

\* a notification failed, the next event of the same tick was notified, and
\* a reminder that failed in one tick was sent in a later one
C39_Witness ==
    /\ \E k \in DOMAIN calendar_log :
          /\ k + 1 \in DOMAIN calendar_log
          /\ calendar_log[k].outcome = "failed"
          /\ calendar_log[k + 1].tick = calendar_log[k].tick
          /\ calendar_log[k + 1].outcome = "ok"
          /\ calendar_log[k].reminder_id \notin sent_reminders.ids
    /\ \E j, m \in DOMAIN calendar_log :
          /\ calendar_log[j].outcome = "failed"
          /\ calendar_log[m].reminder_id = calendar_log[j].reminder_id
          /\ calendar_log[m].tick > calendar_log[j].tick
          /\ calendar_log[m].outcome = "ok"

============================================================================
